---- MODULE Spec2Model ----
(***************************************************************************)
(* Model of casks/ledger_paste_parser.js (v2025.12.04-01): pasted ledger   *)
(* text -> detail rows + last-page summary; and of the page split of       *)
(* buildInvoiceHtml of casks/print.js (v2025.11.24-03).                    *)
(*                                                                         *)
(* Text is a sequence of characters; a character is a one-element string.  *)
(* Characters outside ASCII are written by name:                           *)
(*   "[rei]" 令  "[wa]" 和  "[nen]" 年  "[gatsu]" 月  "[i]" 以  "[yo]" 余     *)
(*   "[yen]" ¥   "[fw1]" １ (a full-width digit)  "[isp]" U+3000 space      *)
(*   "[nou]" 納 "[nyuu]" 入 "[dai]" 台 "[chou]" 帳 (納入台帳)               *)
(*   "[mame]" any other ideograph of a product or vendor name              *)
(* Numbers are exact decimals: a JavaScript number that a token parses to  *)
(* is an integer count of hundredths, a product of two such numbers is a   *)
(* record of whole hundredths plus a remainder in 1/10000.                 *)
(***************************************************************************)
EXTENDS Integers, Sequences, FiniteSets, TLC

\* -------------------- characters --------------------

Digits == <<"0", "1", "2", "3", "4", "5", "6", "7", "8", "9">>

\* \d and 0-9 of the regular expressions
IsDigit(c) == \E d \in 1..10 : Digits[d] = c

DigitVal(c) == (CHOOSE d \in 1..10 : Digits[d] = c) - 1

\* the full-width digits of the character class in findNumberTokens
IsFullWidthDigit(c) == c \in {"[fw0]", "[fw1]", "[fw2]"}

\* \s of the regular expressions
IsSpace(c) == c \in {" ", "\t", "\n", "\r", "[isp]"}

\* [0-9０-９,\.\\¥-]
IsNumberChar(c) ==
    IsDigit(c) \/ IsFullWidthDigit(c) \/ c \in {",", ".", "\\", "[yen]", "-"}

\* -------------------- string helpers of the JavaScript runtime --------------------

RECURSIVE TrimLeft(_)
TrimLeft(s) == IF s # <<>> /\ IsSpace(Head(s)) THEN TrimLeft(Tail(s)) ELSE s

RECURSIVE TrimRight(_)
TrimRight(s) ==
    IF s # <<>> /\ IsSpace(s[Len(s)]) THEN TrimRight(SubSeq(s, 1, Len(s) - 1)) ELSE s

\* s.replace(/^\s+|\s+$/g, '')
Trim(s) == TrimRight(TrimLeft(s))

\* s.indexOf(c) !== -1 for a one-character c
Contains(s, c) == \E p \in 1..Len(s) : s[p] = c

\* s.indexOf(w) !== -1 for a word w
ContainsWord(s, w) ==
    \E p \in 1..(Len(s) - Len(w) + 1) : SubSeq(s, p, p + Len(w) - 1) = w

RECURSIVE Without(_, _)
Without(s, drop) ==
    IF s = <<>> THEN <<>>
    ELSE IF Head(s) \in drop THEN Without(Tail(s), drop)
    ELSE <<Head(s)>> \o Without(Tail(s), drop)

RECURSIVE Join(_)
Join(parts) == IF parts = <<>> THEN <<>> ELSE Head(parts) \o Join(Tail(parts))

\* -------------------- numbers --------------------

\* decimals of toFixed(2); token values are counted in 10^-AmountDecimals
AmountDecimals == 2

RECURSIVE Pow10(_)
Pow10(k) == IF k = 0 THEN 1 ELSE 10 * Pow10(k - 1)

Scale == Pow10(AmountDecimals)

NaN == [nan |-> TRUE]
Num(v) == [nan |-> FALSE, v |-> v]
isNaN(x) == x.nan

RECURSIVE LeadingDigits(_)
LeadingDigits(s) ==
    IF s # <<>> /\ IsDigit(Head(s)) THEN 1 + LeadingDigits(Tail(s)) ELSE 0

RECURSIVE DigitsValue(_)
DigitsValue(s) ==
    IF s = <<>> THEN 0
    ELSE 10 * DigitsValue(SubSeq(s, 1, Len(s) - 1)) + DigitVal(s[Len(s)])

\* the fraction digits d1 d2 ... as a count of hundredths (digits past
\* AmountDecimals do not occur in the inputs)
FractionValue(s) ==
    LET kept == SubSeq(s, 1, IF Len(s) < AmountDecimals THEN Len(s) ELSE AmountDecimals)
    IN DigitsValue(kept) * Pow10(AmountDecimals - Len(kept))

\* parseFloat: leading white space, a sign, digits, a point, digits; what
\* follows the longest such prefix is ignored; no digit at all gives NaN
parseFloat(s) ==
    LET t      == TrimLeft(s)
        signed == t # <<>> /\ Head(t) \in {"-", "+"}
        neg    == t # <<>> /\ Head(t) = "-"
        body   == IF signed THEN Tail(t) ELSE t
        ni     == LeadingDigits(body)
        rest   == SubSeq(body, ni + 1, Len(body))
        nf     == IF rest # <<>> /\ Head(rest) = "." THEN LeadingDigits(Tail(rest)) ELSE 0
        mag    == DigitsValue(SubSeq(body, 1, ni)) * Scale
                    + FractionValue(SubSeq(rest, 2, nf + 1))
    IN IF ni + nf = 0 THEN NaN ELSE Num(IF neg THEN 0 - mag ELSE mag)

parseNumberSimple(val) ==
    LET s == Trim(Without(val, {"[yen]", "\\", ","}))
    IN IF s = <<>> THEN NaN ELSE parseFloat(s)

\* a product q*p, exactly: (h + r/Scale) hundredths with 0 <= r < Scale, and a sign
Abs(x) == IF x < 0 THEN 0 - x ELSE x

Times(a, b) ==
    LET x  == Abs(a)
        y  == Abs(b)
        xh == x \div Scale
        xl == x % Scale
        yh == y \div Scale
        yl == y % Scale
    IN [neg |-> (a < 0) # (b < 0) /\ a # 0 /\ b # 0,
        h   |-> xh * yh * Scale + xh * yl + xl * yh + (xl * yl) \div Scale,
        r   |-> (xl * yl) % Scale]

\* a count of hundredths as such a record
Exact(v) == [neg |-> v < 0, h |-> Abs(v), r |-> 0]

\* |x - a| for a product x >= 0 and a count of hundredths a >= 0
AbsDiff(x, a) ==
    IF x.h >= a THEN [h |-> x.h - a, r |-> x.r]
    ELSE IF x.r = 0 THEN [h |-> a - x.h, r |-> 0]
    ELSE [h |-> a - x.h - 1, r |-> Scale - x.r]

Less(d, e) == d.h < e.h \/ (d.h = e.h /\ d.r < e.r)

\* |d - e| <= 0.5
Within(d, e) ==
    LET lo == IF Less(d, e) THEN d ELSE e
        hi == IF Less(d, e) THEN e ELSE d
        gh == IF hi.r >= lo.r THEN hi.h - lo.h ELSE hi.h - lo.h - 1
        gr == IF hi.r >= lo.r THEN hi.r - lo.r ELSE hi.r - lo.r + Scale
    IN gh < Scale \div 2 \/ (gh = Scale \div 2 /\ gr = 0)

RECURSIVE DigitString(_)
DigitString(k) ==
    IF k < 10 THEN <<Digits[k + 1]>> ELSE DigitString(k \div 10) \o <<Digits[(k % 10) + 1]>>

\* the loop over /(\d+)(\d{3})/: a comma before every group of three digits
RECURSIVE Group3(_)
Group3(ds) ==
    IF Len(ds) <= 3 THEN ds
    ELSE Group3(SubSeq(ds, 1, Len(ds) - 3)) \o <<",">> \o SubSeq(ds, Len(ds) - 2, Len(ds))

\* formatAmount without the loop that sets the thousands separators
formatAmountUngrouped(x) ==
    LET cents   == IF 2 * x.r >= Scale THEN x.h + 1 ELSE x.h
        frac    == DigitString(cents % Scale)
        decPart == IF Len(frac) < AmountDecimals THEN <<"0">> \o frac ELSE frac
    IN (IF x.neg THEN <<"-">> ELSE <<>>) \o DigitString(cents \div Scale) \o <<".">> \o decPart

\* formatAmount of a number: toFixed(2), then the thousands separators
formatAmount(x) ==
    LET cents   == IF 2 * x.r >= Scale THEN x.h + 1 ELSE x.h
        intPart == DigitString(cents \div Scale)
        frac    == DigitString(cents % Scale)
        decPart == IF Len(frac) < AmountDecimals THEN <<"0">> \o frac ELSE frac
    IN (IF x.neg THEN <<"-">> ELSE <<>>) \o Group3(intPart) \o <<".">> \o decPart

\* -------------------- findNumberTokens --------------------

RECURSIVE RunEnd(_, _)
RunEnd(line, p) ==
    IF p < Len(line) /\ IsNumberChar(line[p + 1]) THEN RunEnd(line, p + 1) ELSE p

RECURSIVE TokensFrom(_, _)
TokensFrom(line, p) ==
    IF p > Len(line) THEN <<>>
    ELSE IF IsNumberChar(line[p])
         THEN LET e == RunEnd(line, p)
              IN <<[text |-> SubSeq(line, p, e), index |-> p - 1]>> \o TokensFrom(line, e + 1)
         ELSE TokensFrom(line, p + 1)

findNumberTokens(line) == TokensFrom(line, 1)

\* -------------------- patterns of parseDetailsFromText --------------------

\* four digits of any lead not followed by a digit, at position p of line
FourDigitsAt(line, p) ==
    /\ p + 3 <= Len(line)
    /\ \A q \in p..(p + 3) : IsDigit(line[q])
    /\ (p + 4 <= Len(line) => ~IsDigit(line[p + 4]))

\* codeRe = /0\d{3}(?!\d)/g at position p (1-based) of line
CodeAt(line, p) ==
    /\ p + 3 <= Len(line)
    /\ line[p] = "0"
    /\ \A q \in (p + 1)..(p + 3) : IsDigit(line[q])
    /\ (p + 4 <= Len(line) => ~IsDigit(line[p + 4]))

\* codeRe.exec(line) with lastIndex = 0: the first match, or none
codeRe(line) ==
    IF \E p \in 1..Len(line) : CodeAt(line, p)
    THEN LET p == CHOOSE q \in 1..Len(line) :
                      CodeAt(line, q) /\ \A o \in 1..(q - 1) : ~CodeAt(line, o)
         IN [found |-> TRUE, index |-> p - 1, text |-> SubSeq(line, p, p + 3)]
    ELSE [found |-> FALSE]

Units == {<<"P", "C">>, <<"B", "G">>, <<"K", "G">>, <<"E", "A">>,
          <<"C", "A">>, <<"C", "N">>, <<"S", "H">>}

\* UnitAt that also wants no digit right before the unit code
UnitAfterNonDigit(s, p) ==
    /\ p + 1 <= Len(s)
    /\ SubSeq(s, p, p + 1) \in Units
    /\ (p + 2 <= Len(s) => IsSpace(s[p + 2]))
    /\ (p > 1 => ~IsDigit(s[p - 1]))

\* unitRe = /(PC|BG|KG|EA|CA|CN|SH)(?=\s|$)/ at position p (1-based) of s
UnitAt(s, p) ==
    /\ p + 1 <= Len(s)
    /\ SubSeq(s, p, p + 1) \in Units
    /\ (p + 2 <= Len(s) => IsSpace(s[p + 2]))

\* unitRe.exec(s): the first match, or none
unitRe(s) ==
    IF \E p \in 1..Len(s) : UnitAt(s, p)
    THEN LET p == CHOOSE q \in 1..Len(s) :
                      UnitAt(s, q) /\ \A o \in 1..(q - 1) : ~UnitAt(s, o)
         IN [found |-> TRUE, index |-> p - 1, unit |-> SubSeq(s, p, p + 1)]
    ELSE [found |-> FALSE]

\* 令和 ... 年 ... 月
IsEraHeader(trimmed) ==
    /\ ContainsWord(trimmed, <<"[rei]", "[wa]">>)
    /\ Contains(trimmed, "[nen]")
    /\ Contains(trimmed, "[gatsu]")

\* 納　地 with 業 者 名, 納入台帳, 課税対象額
IsPageHeader(t2) ==
    \/ /\ ContainsWord(t2, <<"[nou]", "[isp]", "[chi]">>)
       /\ ContainsWord(t2, <<"[gyou]", " ", "[sha]", " ", "[mei]">>)
    \/ ContainsWord(t2, <<"[nou]", "[nyuu]", "[dai]", "[chou]">>)
    \/ ContainsWord(t2, <<"[ka]", "[zei]", "[tai]", "[shou]", "[gaku]">>)

\* the line of -　以　下　余　白　-
IsRemainderBlank(t) == Contains(t, "[i]") /\ Contains(t, "[yo]")

\* -------------------- normalisation --------------------

\* .replace(/\r\n/g, '\n').replace(/\r/g, '\n')
RECURSIVE Normalize(_)
Normalize(t) ==
    IF t = <<>> THEN <<>>
    ELSE IF Head(t) = "\r"
         THEN <<"\n">> \o Normalize(IF Len(t) >= 2 /\ t[2] = "\n" THEN Tail(Tail(t)) ELSE Tail(t))
         ELSE <<Head(t)>> \o Normalize(Tail(t))

\* .split('\n')
RECURSIVE Split(_, _)
Split(t, cur) ==
    IF t = <<>> THEN <<cur>>
    ELSE IF Head(t) = "\n" THEN <<cur>> \o Split(Tail(t), <<>>)
    ELSE Split(Tail(t), Append(cur, Head(t)))

SplitLines(t) == Split(Normalize(t), <<>>)

\* -------------------- parseDetailsFromText: one block --------------------
\* ls is the list of lines; JavaScript index k is ls[k + 1]

\* the line right after the era header, blank or not
VendorNextLine(ls, vIdx, currentVendor) ==
    IF vIdx >= Len(ls) THEN currentVendor ELSE Trim(ls[vIdx + 1])

\* the line after the era header at i that becomes currentVendor
RECURSIVE VendorAfter(_, _, _)
VendorAfter(ls, vIdx, currentVendor) ==
    IF vIdx >= Len(ls) THEN currentVendor
    ELSE IF Trim(ls[vIdx + 1]) # <<>> THEN Trim(ls[vIdx + 1])
    ELSE VendorAfter(ls, vIdx + 1, currentVendor)

\* the search for blockEnd with the remainder-blank line left out of the block
RECURSIVE BlockEndBeforeMarker(_, _)
BlockEndBeforeMarker(ls, k) ==
    IF k >= Len(ls) THEN Len(ls)
    ELSE LET t2 == Trim(ls[k + 1])
         IN IF t2 = <<>> THEN BlockEndBeforeMarker(ls, k + 1)
            ELSE IF codeRe(ls[k + 1]).found \/ IsPageHeader(t2) \/ IsRemainderBlank(t2) THEN k
            ELSE BlockEndBeforeMarker(ls, k + 1)

blockEndMarkerOut(ls, i) == BlockEndBeforeMarker(ls, i + 1)

\* the search for blockEnd, from k = i + 1
RECURSIVE BlockEndFrom(_, _)
BlockEndFrom(ls, k) ==
    IF k >= Len(ls) THEN Len(ls)
    ELSE LET l2 == ls[k + 1]
             t2 == Trim(l2)
         IN IF t2 = <<>> THEN BlockEndFrom(ls, k + 1)
            ELSE IF codeRe(l2).found THEN k
            ELSE IF IsPageHeader(t2) THEN k
            ELSE IF IsRemainderBlank(t2) THEN k + 1
            ELSE BlockEndFrom(ls, k + 1)

\* BlockEndFrom with the next code line taken into the block (k + 1 for k)
RECURSIVE BlockEndPastCode(_, _)
BlockEndPastCode(ls, k) ==
    IF k >= Len(ls) THEN Len(ls)
    ELSE LET l2 == ls[k + 1]
             t2 == Trim(l2)
         IN IF t2 = <<>> THEN BlockEndPastCode(ls, k + 1)
            ELSE IF codeRe(l2).found THEN k + 1
            ELSE IF IsPageHeader(t2) THEN k
            ELSE IF IsRemainderBlank(t2) THEN k + 1
            ELSE BlockEndPastCode(ls, k + 1)

blockEndPastCode(ls, i) == BlockEndPastCode(ls, i + 1)

\* the search for blockEnd that does not stop at the remainder-blank line
RECURSIVE BlockEndPastMarker(_, _)
BlockEndPastMarker(ls, k) ==
    IF k >= Len(ls) THEN Len(ls)
    ELSE LET t2 == Trim(ls[k + 1])
         IN IF t2 = <<>> THEN BlockEndPastMarker(ls, k + 1)
            ELSE IF codeRe(ls[k + 1]).found \/ IsPageHeader(t2) THEN k
            ELSE BlockEndPastMarker(ls, k + 1)

blockEndPastMarker(ls, i) == BlockEndPastMarker(ls, i + 1)

\* the search for blockEnd begun on the code line itself (k = i)
blockEndFromCodeLine(ls, i) == BlockEndFrom(ls, i)

blockEndOf(ls, i) == BlockEndFrom(ls, i + 1)

Parses(t) == ~isNaN(parseNumberSimple(t.text))

\* the texts of the tokens of lines [kk, blockEnd) that parse, in reading order
RECURSIVE ParsedTokens(_, _, _)
ParsedTokens(ls, kk, blockEnd) ==
    IF kk >= blockEnd THEN <<>>
    ELSE SelectSeq(findNumberTokens(ls[kk + 1]), Parses) \o ParsedTokens(ls, kk + 1, blockEnd)

tokensBlock(ls, i, blockEnd, code) ==
    LET found == ParsedTokens(ls, i, blockEnd)
    IN [g \in 1..Len(found) |->
           [text        |-> found[g].text,
            value       |-> parseNumberSimple(found[g].text).v,
            isCode      |-> found[g].text = code,
            globalIndex |-> g - 1]]

\* the tokens of a line whose text is not the code
nonCodeOf(line, code) ==
    LET notCode(t) == t.text # code
    IN SelectSeq(findNumberTokens(line), notCode)

\* LastPairLine that keeps the first such line it meets
RECURSIVE FirstPairLine(_, _, _, _, _)
FirstPairLine(ls, lineIdx, blockEnd, code, found) ==
    IF lineIdx >= blockEnd \/ found # -1 THEN found
    ELSE FirstPairLine(ls, lineIdx + 1, blockEnd, code,
                       IF Len(nonCodeOf(ls[lineIdx + 1], code)) >= 2 THEN lineIdx ELSE found)

\* lastPairLineIdx: the last line of [lineIdx, blockEnd) with two or more
\* tokens that are not the code, or found (initially -1)
RECURSIVE LastPairLine(_, _, _, _, _)
LastPairLine(ls, lineIdx, blockEnd, code, found) ==
    IF lineIdx >= blockEnd THEN found
    ELSE LastPairLine(ls, lineIdx + 1, blockEnd, code,
                      IF Len(nonCodeOf(ls[lineIdx + 1], code)) >= 2 THEN lineIdx ELSE found)

\* the last token of the first line of [aLineIdx, blockEnd) that has a token
\* other than the code; '' if there is none
RECURSIVE AmountAfter(_, _, _, _)
AmountAfter(ls, aLineIdx, blockEnd, code) ==
    IF aLineIdx >= blockEnd THEN <<>>
    ELSE LET nonCodeA == nonCodeOf(ls[aLineIdx + 1], code)
         IN IF nonCodeA # <<>> THEN nonCodeA[Len(nonCodeA)].text
            ELSE AmountAfter(ls, aLineIdx + 1, blockEnd, code)

\* formatAmount(q * p) when both numbers parsed, else ''
ProductText(qv, pv) ==
    IF ~isNaN(qv) /\ ~isNaN(pv) THEN formatAmount(Times(qv.v, pv.v)) ELSE <<>>

\* lastPairRule with the amount always computed, a printed one ignored
lastPairRuleComputed(ls, blockEnd, code, lastPairLineIdx) ==
    LET lastPairLineTokens == nonCodeOf(ls[lastPairLineIdx + 1], code)
        lenPair   == Len(lastPairLineTokens)
        qtyText   == lastPairLineTokens[lenPair - 1].text
        priceText == lastPairLineTokens[lenPair].text
    IN [qty    |-> qtyText,
        price  |-> priceText,
        amount |-> ProductText(parseNumberSimple(qtyText), parseNumberSimple(priceText))]

\* the "last pair" rule on a block whose lastPairLineIdx is not -1
lastPairRule(ls, blockEnd, code, lastPairLineIdx) ==
    LET lastPairLineTokens == nonCodeOf(ls[lastPairLineIdx + 1], code)
        lenPair   == Len(lastPairLineTokens)
        qtyText   == lastPairLineTokens[lenPair - 1].text
        priceText == lastPairLineTokens[lenPair].text
        printed   == AmountAfter(ls, lastPairLineIdx + 1, blockEnd, code)
    IN [qty    |-> qtyText,
        price  |-> priceText,
        amount |-> IF printed # <<>> THEN printed
                   ELSE ProductText(parseNumberSimple(qtyText), parseNumberSimple(priceText))]

\* -------------------- the fallback: the old estimation logic --------------------

\* amountToken: the first token of the largest value
RECURSIVE MaxToken(_, _, _)
MaxToken(toks, t, amountToken) ==
    IF t > Len(toks) THEN amountToken
    ELSE MaxToken(toks, t + 1,
                  IF toks[t].value > amountToken.value THEN toks[t] ELSE amountToken)

\* candidates: every token but amountToken whose value is above 0
candidatesOf(nonCodeTokens, amountToken) ==
    LET keep(tok) == tok.globalIndex # amountToken.globalIndex /\ tok.value > 0
    IN SelectSeq(nonCodeTokens, keep)

\* BestPair with <= for <: of two pairs as close, the later one stays
RECURSIVE BestPairLatest(_, _, _, _)
BestPairLatest(candidates, amountValue, idx, best) ==
    IF idx >= Len(candidates) * Len(candidates) THEN best
    ELSE LET qi    == idx \div Len(candidates)
             pj2   == idx % Len(candidates)
             qTok2 == candidates[qi + 1]
             pTok2 == candidates[pj2 + 1]
             diff  == AbsDiff(Times(qTok2.value, pTok2.value), amountValue)
         IN IF qi = pj2 \/ qTok2.value <= 0 \/ pTok2.value <= 0
            THEN BestPairLatest(candidates, amountValue, idx + 1, best)
            ELSE IF ~best.set \/ ~Less(best.diff, diff)
            THEN BestPairLatest(candidates, amountValue, idx + 1,
                                [set |-> TRUE, diff |-> diff, qty |-> qTok2, price |-> pTok2])
            ELSE BestPairLatest(candidates, amountValue, idx + 1, best)

\* the double loop over (qi, pj2), flattened to idx = qi * length + pj2;
\* best.set is FALSE while bestDiff is POSITIVE_INFINITY
RECURSIVE BestPair(_, _, _, _)
BestPair(candidates, amountValue, idx, best) ==
    IF idx >= Len(candidates) * Len(candidates) THEN best
    ELSE LET qi    == idx \div Len(candidates)
             pj2   == idx % Len(candidates)
             qTok2 == candidates[qi + 1]
             pTok2 == candidates[pj2 + 1]
             diff  == AbsDiff(Times(qTok2.value, pTok2.value), amountValue)
         IN IF qi = pj2 \/ qTok2.value <= 0 \/ pTok2.value <= 0
            THEN BestPair(candidates, amountValue, idx + 1, best)
            ELSE IF ~best.set \/ Less(diff, best.diff)
            THEN BestPair(candidates, amountValue, idx + 1,
                          [set |-> TRUE, diff |-> diff, qty |-> qTok2, price |-> pTok2])
            ELSE IF /\ Within(diff, best.diff)
                    /\ \/ qTok2.globalIndex < best.qty.globalIndex
                       \/ /\ qTok2.globalIndex = best.qty.globalIndex
                          /\ pTok2.globalIndex < best.price.globalIndex
            THEN BestPair(candidates, amountValue, idx + 1,
                          [best EXCEPT !.qty = qTok2, !.price = pTok2])
            ELSE BestPair(candidates, amountValue, idx + 1, best)

\* one pass of the bubble sort: swap neighbours that are out of order
RECURSIVE BubblePass(_, _)
BubblePass(arr, s) ==
    IF s >= Len(arr) THEN arr
    ELSE IF arr[s].value > arr[s + 1].value
         THEN BubblePass([arr EXCEPT ![s] = arr[s + 1], ![s + 1] = arr[s]], s + 1)
         ELSE BubblePass(arr, s + 1)

\* do { ... } while (swapped)
RECURSIVE BubbleSort(_)
BubbleSort(arr) ==
    LET next == BubblePass(arr, 1)
    IN IF next = arr THEN arr ELSE BubbleSort(next)

\* bestFitRule with the amount computed from the pair it selected
bestFitRuleComputed(nonCodeTokens) ==
    LET amountToken == MaxToken(nonCodeTokens, 2, nonCodeTokens[1])
        candidates  == candidatesOf(nonCodeTokens, amountToken)
        best        == IF Len(candidates) >= 2
                       THEN BestPair(candidates, amountToken.value, 0, [set |-> FALSE])
                       ELSE [set |-> FALSE]
        arr         == BubbleSort(nonCodeTokens)
    IN IF best.set
       THEN [qty    |-> best.qty.text,
             price  |-> best.price.text,
             amount |-> formatAmount(Times(best.qty.value, best.price.value))]
       ELSE [qty    |-> arr[1].text,
             price  |-> arr[2].text,
             amount |-> formatAmount(Times(arr[1].value, arr[2].value))]

\* bestFitRule with a pair accepted only within 0.5 of the amount candidate
bestFitRuleWithTolerance(nonCodeTokens) ==
    LET amountToken == MaxToken(nonCodeTokens, 2, nonCodeTokens[1])
        candidates  == candidatesOf(nonCodeTokens, amountToken)
        best        == IF Len(candidates) >= 2
                       THEN BestPair(candidates, amountToken.value, 0, [set |-> FALSE])
                       ELSE [set |-> FALSE]
        arr         == BubbleSort(nonCodeTokens)
    IN IF best.set /\ Within(best.diff, [h |-> 0, r |-> 0])
       THEN [qty |-> best.qty.text, price |-> best.price.text, amount |-> amountToken.text]
       ELSE [qty    |-> arr[1].text,
             price  |-> arr[2].text,
             amount |-> formatAmount(Times(arr[1].value, arr[2].value))]

\* three or more tokens that are not the code
bestFitRule(nonCodeTokens) ==
    LET amountToken == MaxToken(nonCodeTokens, 2, nonCodeTokens[1])
        candidates  == candidatesOf(nonCodeTokens, amountToken)
        best        == IF Len(candidates) >= 2
                       THEN BestPair(candidates, amountToken.value, 0, [set |-> FALSE])
                       ELSE [set |-> FALSE]
        arr         == BubbleSort(nonCodeTokens)
    IN IF best.set
       THEN [qty |-> best.qty.text, price |-> best.price.text, amount |-> amountToken.text]
       ELSE [qty    |-> arr[1].text,
             price  |-> arr[2].text,
             amount |-> formatAmount(Times(arr[1].value, arr[2].value))]

\* twoTokenRule that takes the two tokens in reading order
twoTokenRuleInOrder(nonCodeTokens) ==
    LET qTok4 == nonCodeTokens[1]
        pTok4 == nonCodeTokens[2]
    IN [qty    |-> qTok4.text,
        price  |-> pTok4.text,
        amount |-> formatAmount(Times(qTok4.value, pTok4.value))]

\* exactly two tokens that are not the code
twoTokenRule(nonCodeTokens) ==
    LET tA    == nonCodeTokens[1]
        tB    == nonCodeTokens[2]
        qTok4 == IF tA.value <= tB.value THEN tA ELSE tB
        pTok4 == IF tA.value <= tB.value THEN tB ELSE tA
    IN [qty    |-> qTok4.text,
        price  |-> pTok4.text,
        amount |-> formatAmount(Times(qTok4.value, pTok4.value))]

fallbackRule(ls, i, blockEnd, code) ==
    LET isNotCode(t)  == ~t.isCode
        nonCodeTokens == SelectSeq(tokensBlock(ls, i, blockEnd, code), isNotCode)
    IN IF Len(nonCodeTokens) >= 3 THEN bestFitRule(nonCodeTokens)
       ELSE IF Len(nonCodeTokens) = 2 THEN twoTokenRule(nonCodeTokens)
       ELSE IF Len(nonCodeTokens) = 1
            THEN [qty |-> nonCodeTokens[1].text, price |-> <<>>, amount |-> <<>>]
       ELSE [qty |-> <<>>, price |-> <<>>, amount |-> <<>>]

\* qtyText, priceText, amountText of the block [i, blockEnd)
quantityPriceAmount(ls, i, blockEnd, code) ==
    LET lastPairLineIdx == LastPairLine(ls, i, blockEnd, code, -1)
    IN IF lastPairLineIdx # -1
       THEN lastPairRule(ls, blockEnd, code, lastPairLineIdx)
       ELSE fallbackRule(ls, i, blockEnd, code)

\* -------------------- name and unit --------------------

splitNameAndUnit(fullName) ==
    LET trimmed == TrimRight(fullName)
        n       == Len(trimmed)
    IN IF n >= 2 /\ SubSeq(trimmed, n - 1, n) \in Units
       THEN [name |-> SubSeq(trimmed, 1, n - 2), unit |-> SubSeq(trimmed, n - 1, n)]
       ELSE [name |-> trimmed, unit |-> <<>>]

\* the code line: the tail after the four digits of the code
headOfName(line, m) ==
    LET tailTrim == Trim(SubSeq(line, m.index + 5, Len(line)))
        umHead   == unitRe(tailTrim)
    IN IF tailTrim = <<>> THEN [parts |-> <<>>, unit |-> <<>>]
       ELSE IF umHead.found
            THEN LET nameCandidate == TrimRight(SubSeq(tailTrim, 1, umHead.index))
                 IN [parts |-> IF nameCandidate # <<>> THEN <<nameCandidate>> ELSE <<>>,
                     unit  |-> umHead.unit]
       ELSE [parts |-> <<tailTrim>>, unit |-> <<>>]

\* restOfName that goes on past a line with a number and no unit
RECURSIVE restOfNamePast(_, _, _, _)
restOfNamePast(ls, p, blockEnd, acc) ==
    IF p >= blockEnd THEN acc
    ELSE LET l3      == ls[p + 1]
             t3      == Trim(l3)
             um2     == unitRe(t3)
             tokens3 == findNumberTokens(l3)
         IN IF t3 = <<>> THEN restOfNamePast(ls, p + 1, blockEnd, acc)
            ELSE IF tokens3 = <<>> /\ ~um2.found
            THEN restOfNamePast(ls, p + 1, blockEnd, [acc EXCEPT !.parts = Append(@, t3)])
            ELSE IF um2.found
            THEN LET prefixUnit == TrimRight(SubSeq(t3, 1, um2.index))
                 IN [parts |-> IF prefixUnit # <<>> THEN Append(acc.parts, prefixUnit)
                               ELSE acc.parts,
                     unit  |-> IF acc.unit = <<>> THEN um2.unit ELSE acc.unit]
            ELSE LET prefix3 == Trim(SubSeq(l3, 1, tokens3[1].index))
                 IN restOfNamePast(ls, p + 1, blockEnd,
                        [acc EXCEPT !.parts = IF prefix3 # <<>> THEN Append(@, prefix3) ELSE @])

\* the lines p .. blockEnd - 1 after the code line
RECURSIVE restOfName(_, _, _, _)
restOfName(ls, p, blockEnd, acc) ==
    IF p >= blockEnd THEN acc
    ELSE LET l3      == ls[p + 1]
             t3      == Trim(l3)
             um2     == unitRe(t3)
             tokens3 == findNumberTokens(l3)
         IN IF t3 = <<>> THEN restOfName(ls, p + 1, blockEnd, acc)
            ELSE IF tokens3 = <<>> /\ ~um2.found
            THEN restOfName(ls, p + 1, blockEnd, [acc EXCEPT !.parts = Append(@, t3)])
            ELSE IF um2.found
            THEN LET prefixUnit == TrimRight(SubSeq(t3, 1, um2.index))
                 IN [parts |-> IF prefixUnit # <<>> THEN Append(acc.parts, prefixUnit)
                               ELSE acc.parts,
                     unit  |-> IF acc.unit = <<>> THEN um2.unit ELSE acc.unit]
            ELSE LET prefix3 == Trim(SubSeq(l3, 1, tokens3[1].index))
                 IN [acc EXCEPT !.parts = IF prefix3 # <<>> THEN Append(@, prefix3) ELSE @]

nameAndUnit(ls, i, blockEnd, m) ==
    LET got      == restOfName(ls, i + 1, blockEnd, headOfName(ls[i + 1], m))
        fullName == Join(got.parts)
    IN IF got.unit # <<>> THEN [name |-> fullName, unit |-> got.unit]
       ELSE splitNameAndUnit(fullName)

\* -------------------- parseSummaryFromText --------------------

\* .replace(/-+$/g, '')
RECURSIVE DropHyphens(_)
DropHyphens(w) ==
    IF w # <<>> /\ w[Len(w)] = "-" THEN DropHyphens(SubSeq(w, 1, Len(w) - 1)) ELSE w

normalizeTotal(val) ==
    IF val = <<>> THEN <<>> ELSE Trim(DropHyphens(Without(val, {"[yen]", "\\"})))

\* the last ten lines are scanned when there is no remainder-blank line
SummaryTailLines == 10

\* the search from the top for the remainder-blank line, from index k up
RECURSIVE MarkerUpFrom(_, _)
MarkerUpFrom(ls, k) ==
    IF k >= Len(ls) THEN -1
    ELSE IF IsRemainderBlank(Trim(ls[k + 1])) THEN k + 1
    ELSE MarkerUpFrom(ls, k + 1)

\* the first remainder-blank line of the text, whatever k
MarkerFirst(ls, k) == MarkerUpFrom(ls, 0)

\* the search from the end for the remainder-blank line, from index k down
RECURSIVE MarkerFrom(_, _)
MarkerFrom(ls, k) ==
    IF k < 0 THEN -1
    ELSE IF IsRemainderBlank(Trim(ls[k + 1])) THEN k + 1
    ELSE MarkerFrom(ls, k - 1)

summaryStart(ls) ==
    LET afterMarker == MarkerFrom(ls, Len(ls) - 1)
    IN IF afterMarker # -1 THEN afterMarker
       ELSE IF Len(ls) - SummaryTailLines < 0 THEN 0
       ELSE Len(ls) - SummaryTailLines

\* numbers: the last token of each line that has one, from k on, three at most
RECURSIVE summaryNumbers(_, _, _)
summaryNumbers(ls, k, numbers) ==
    IF k >= Len(ls) \/ Len(numbers) >= 3 THEN numbers
    ELSE LET tokens == findNumberTokens(ls[k + 1])
         IN summaryNumbers(ls, k + 1,
                IF tokens = <<>> THEN numbers ELSE Append(numbers, tokens[Len(tokens)].text))

\* parseSummaryFromText that fills what it has found, be it less than three
parseSummaryPartial(ls) ==
    LET numbers == summaryNumbers(ls, summaryStart(ls), <<>>)
    IN [base  |-> IF Len(numbers) >= 1 THEN numbers[1] ELSE <<>>,
        tax   |-> IF Len(numbers) >= 3 THEN numbers[3] ELSE <<>>,
        total |-> IF Len(numbers) >= 2 THEN normalizeTotal(numbers[2]) ELSE <<>>]

parseSummaryFromText(ls) ==
    LET numbers == summaryNumbers(ls, summaryStart(ls), <<>>)
    IN IF Len(numbers) < 3 THEN [base |-> <<>>, tax |-> <<>>, total |-> <<>>]
       ELSE [base |-> numbers[1], tax |-> numbers[3], total |-> normalizeTotal(numbers[2])]

\* -------------------- parseLedgerText --------------------

\* the sum of the amounts that parse
RECURSIVE sumAmounts(_)
sumAmounts(rs) ==
    IF rs = <<>> THEN 0
    ELSE LET v == parseNumberSimple(rs[Len(rs)].amount)
         IN sumAmounts(SubSeq(rs, 1, Len(rs) - 1)) + (IF isNaN(v) THEN 0 ELSE v.v)

\* "<" also when |base - sum| = 0.5
baseCheckMarkInclusive(base, sum) ==
    LET baseNum == parseNumberSimple(base)
    IN IF ~isNaN(baseNum) /\ Abs(baseNum.v - sum) <= Scale \div 2 THEN <<"<">> ELSE <<>>

\* "<" when |base - sum| < 0.5, half of Scale hundredths
baseCheckMark(base, sum) ==
    LET baseNum == parseNumberSimple(base)
    IN IF ~isNaN(baseNum) /\ Abs(baseNum.v - sum) < Scale \div 2 THEN <<"<">> ELSE <<>>

\* ledgerSummary with calcBaseStr set only when there are rows
ledgerSummaryUnsetStr(ls, rs) ==
    LET printed == parseSummaryFromText(ls)
        sum     == sumAmounts(rs)
        always  == [base          |-> printed.base,
                    tax           |-> printed.tax,
                    total         |-> printed.total,
                    calcBase      |-> sum,
                    baseCheckMark |-> baseCheckMark(printed.base, sum)]
    IN IF rs = <<>> THEN always
       ELSE [f \in DOMAIN always \cup {"calcBaseStr"} |->
                IF f = "calcBaseStr" THEN formatAmount(Exact(sum)) ELSE always[f]]

\* ledgerSummary with calcBaseStr formatted also when there is no row
ledgerSummaryAlwaysStr(ls, rs) ==
    LET printed == parseSummaryFromText(ls)
        sum     == sumAmounts(rs)
    IN [base          |-> printed.base,
        tax           |-> printed.tax,
        total         |-> printed.total,
        calcBase      |-> sum,
        calcBaseStr   |-> formatAmount(Exact(sum)),
        baseCheckMark |-> baseCheckMark(printed.base, sum)]

\* the summary that parseLedgerText returns for the rows rs
ledgerSummary(ls, rs) ==
    LET printed == parseSummaryFromText(ls)
        sum     == sumAmounts(rs)
    IN [base          |-> printed.base,
        tax           |-> printed.tax,
        total         |-> printed.total,
        calcBase      |-> sum,
        calcBaseStr   |-> IF rs # <<>> THEN formatAmount(Exact(sum)) ELSE <<>>,
        baseCheckMark |-> baseCheckMark(printed.base, sum)]

\* -------------------- the state machine --------------------

VARIABLES
    text,           \* the pasted text
    lines,          \* normalized.split('\n')
    i,              \* the index of the for loop of parseDetailsFromText
    currentVendor,
    rows,
    blocks,         \* [start, end) of the block of each row (for the checks only)
    summary,        \* the summary of parseLedgerText, Undefined until it returns
    pc,             \* "details" in the loop, "done" when parseLedgerText has returned
    returned,       \* what the earlier calls returned, with their texts (for the checks only)
    calls,          \* the number of calls of parseLedgerText so far
    data,           \* the argument of buildInvoiceHtml of casks/print.js
    pages,          \* its list of pages
    offset          \* the rows it has put on pages

vars == <<text, lines, i, currentVendor, rows, blocks, summary, pc, returned, calls, data, pages, offset>>

Undefined == [undefined |-> TRUE]

\* the state when the loop of parseDetailsFromText is entered on text t
Called(t) ==
    /\ text = t
    /\ lines = SplitLines(t)
    /\ i = 0
    /\ currentVendor = <<>>
    /\ rows = <<>>
    /\ blocks = <<>>
    /\ summary = Undefined
    /\ pc = "details"
    /\ returned = {}
    /\ calls = 1
    /\ data = [rows |-> <<>>]
    /\ pages = <<>>
    /\ offset = 0

Looping == pc = "details" /\ i < Len(lines)

\* line 145: the era header sets currentVendor from the next non-blank line
EraHeader ==
    /\ Looping
    /\ IsEraHeader(Trim(lines[i + 1]))
    /\ currentVendor' = VendorAfter(lines, i + 1, currentVendor)
    /\ i' = i + 1
    /\ UNCHANGED <<text, lines, rows, blocks, summary, pc, returned, calls, data, pages, offset>>

\* lines 162 and 169: a blank line, or a line without a code
SkipLine ==
    /\ Looping
    /\ ~IsEraHeader(Trim(lines[i + 1]))
    /\ Trim(lines[i + 1]) = <<>> \/ ~codeRe(lines[i + 1]).found
    /\ i' = i + 1
    /\ UNCHANGED <<text, lines, currentVendor, rows, blocks, summary, pc, returned, calls, data, pages, offset>>

\* the row of the block that the code line i starts
rowOf(ls, at, vendor) ==
    LET m        == codeRe(ls[at + 1])
        code     == m.text
        blockEnd == blockEndOf(ls, at)
        qpa      == quantityPriceAmount(ls, at, blockEnd, code)
        nu       == nameAndUnit(ls, at, blockEnd, m)
    IN [vendor |-> vendor,
        no     |-> code,
        name   |-> nu.name,
        spec   |-> <<>>,
        unit   |-> nu.unit,
        qty    |-> qpa.qty,
        price  |-> qpa.price,
        amount |-> qpa.amount,
        note   |-> <<>>]

\* rows.unshift(row)
unshiftRow(rs, row) == <<row>> \o rs

\* rows.push(row)
pushRow(rs, row) == Append(rs, row)

\* lines 173-550: a code line starts a block; its row is pushed and the loop
\* goes on at blockEnd
EmitRow ==
    /\ Looping
    /\ ~IsEraHeader(Trim(lines[i + 1]))
    /\ Trim(lines[i + 1]) # <<>>
    /\ codeRe(lines[i + 1]).found
    /\ rows' = pushRow(rows, rowOf(lines, i, currentVendor))
    /\ blocks' = Append(blocks, [start |-> i, end |-> blockEndOf(lines, i)])
    /\ i' = blockEndOf(lines, i)
    /\ UNCHANGED <<text, lines, currentVendor, summary, pc, returned, calls, data, pages, offset>>

\* the loop is over: parseSummaryFromText, the sum of the amounts, the mark
Summarise ==
    /\ pc = "details"
    /\ i >= Len(lines)
    /\ summary' = ledgerSummary(lines, rows)
    /\ pc' = "done"
    /\ UNCHANGED <<text, lines, i, currentVendor, rows, blocks, returned, calls, data, pages, offset>>

Next == EraHeader \/ SkipLine \/ EmitRow \/ Summarise

\* -------------------- the inputs --------------------

SeqsUpTo(S, n) == UNION {[1..k -> S] : k \in 0..n}

\* the pieces joined by line feeds
RECURSIVE JoinLines(_)
JoinLines(pieces) ==
    IF pieces = <<>> THEN <<>>
    ELSE IF Len(pieces) = 1 THEN pieces[1]
    ELSE pieces[1] \o <<"\n">> \o JoinLines(Tail(pieces))

\* most pieces of a pasted text
MaxPieces == 3

BlankPiece  == <<>>
\* white space with a CR LF and a CR in it
SpacePiece  == <<" ", "\r", "\n", "[isp]", "\r">>
\* 0001 <name> 2 3
ItemPiece   == <<"0", "0", "0", "1", " ", "[mame]", " ", "2", " ", "3">>
\* 0002 <name>KG
ItemPiece2  == <<"0", "0", "0", "2", " ", "[mame]", "K", "G">>
\* 令和0007年1月
EraPiece    == <<"[rei]", "[wa]", "0", "0", "0", "7", "[nen]", "1", "[gatsu]">>
\* 6.00 -　以　下　余　白　-
MarkerPiece == <<"6", ".", "0", "0", " ", "-", "[isp]", "[i]", "[isp]", "[ka2]", "[isp]",
                 "[yo]", "[isp]", "[haku]", "[isp]", "-">>
\* 納入台帳
TitlePiece  == <<"[nou]", "[nyuu]", "[dai]", "[chou]">>
\* 7
NumberPiece == <<"7">>

Pieces == {BlankPiece, SpacePiece, ItemPiece, ItemPiece2, EraPiece, MarkerPiece,
           TitlePiece, NumberPiece}

Init == \E ps \in SeqsUpTo(Pieces, MaxPieces) : Called(JoinLines(ps))

Spec == Init /\ [][Next]_vars

\* one item under a page head: the era header, the vendor, the code line,
\* then the lines of the item
MaxItemLines == 3

\* 令和7年11月
EraLine    == <<"[rei]", "[wa]", "7", "[nen]", "1", "1", "[gatsu]">>
VendorLine == <<"[mame]", "[mame]">>
CodeLine   == <<"0", "0", "0", "1", " ", "[mame]">>

ItemLines ==
    {<<"0", ".", "1", "0">>,
     <<"0", ".", "1", "0", " ", "1", "9", ",", "5", "0", "0", ".", "0", "0">>,
     <<"1", ",", "9", "5", "0", ".", "0", "0">>,
     <<"1", "2", ".", "0", "0">>,
     <<"3", "0", "0", ".", "0", "0">>,
     <<"3", "6", "0", "0", ".", "0", "0">>,
     <<"1", "2", ".", "0", "0", " ", "3", "0", "0", ".", "0", "0">>,
     <<"0">>,
     <<"-", "5">>}

InitItem ==
    \E body \in SeqsUpTo(ItemLines, MaxItemLines) :
        Called(JoinLines(<<EraLine, VendorLine, CodeLine>> \o body))

SpecItem == InitItem /\ [][Next]_vars

\* -------------------- the claims --------------------

SummaryFields == {"base", "tax", "total", "calcBase", "calcBaseStr", "baseCheckMark"}

IsWhitespaceOnly(t) == \A p \in 1..Len(t) : IsSpace(t[p])

\* line k (from 0) anchors a block: not blank, with a code, no era header
IsAnchor(k) ==
    /\ Trim(lines[k + 1]) # <<>>
    /\ codeRe(lines[k + 1]).found
    /\ ~IsEraHeader(Trim(lines[k + 1]))

AnchorsBefore(k) == {a \in 0..(Len(lines) - 1) : a < k /\ IsAnchor(a)}

CodeOfLine(k) == codeRe(lines[k + 1]).text

RowFields == {"vendor", "no", "name", "spec", "unit", "qty", "price", "amount", "note"}

\* C1: on every input string the scan stays inside the list of lines until
\* parseLedgerText returns, every row it pushes is a whole row, and what it
\* returns has a list of rows and a summary with base, tax, total, calcBase,
\* calcBaseStr and baseCheckMark all defined.
C1_ReturnsRowsAndSummary ==
    /\ i \in 0..Len(lines)
    /\ DOMAIN rows = 1..Len(rows)
    /\ \A j \in 1..Len(rows) : DOMAIN rows[j] = RowFields
    /\ pc = "details" => summary = Undefined
    /\ pc = "done" => i = Len(lines) /\ SummaryFields \subseteq DOMAIN summary

\* a text with neither an item code nor a summary section has been parsed
C1_Witness ==
    /\ pc = "done"
    /\ ~IsWhitespaceOnly(text)
    /\ rows = <<>>
    /\ summary.base = <<>>
    /\ summary.calcBaseStr = <<>>

\* C2: on an empty or white-space-only text (spaces and line breaks in any
\* mix) parseLedgerText returns no row and a summary whose base, tax, total,
\* calcBaseStr and baseCheckMark are empty and whose calcBase is 0.
C2_BlankTextBlankResult ==
    (pc = "done" /\ IsWhitespaceOnly(text)) =>
        /\ rows = <<>>
        /\ summary.base = <<>>
        /\ summary.tax = <<>>
        /\ summary.total = <<>>
        /\ summary.calcBaseStr = <<>>
        /\ summary.baseCheckMark = <<>>
        /\ summary.calcBase = 0

\* a text of spaces, a CR LF and a CR has been parsed
C2_Witness ==
    /\ pc = "done"
    /\ IsWhitespaceOnly(text)
    /\ Contains(text, " ")
    /\ ContainsWord(text, <<"\r", "\n">>)
    /\ Len(lines) >= 3

\* C3: the rows emitted so far are, in order, the anchoring lines scanned so
\* far (non-blank, with a code, no era header): one row per such line, none
\* of them inside the block of another, each row with the code matched on its
\* own line.
C3_RowsMatchAnchors ==
    /\ Len(blocks) = Len(rows)
    /\ Len(rows) = Cardinality(AnchorsBefore(i))
    /\ \A j \in 1..Len(rows) :
        /\ blocks[j].start \in AnchorsBefore(i)
        /\ rows[j].no = CodeOfLine(blocks[j].start)
        /\ \A k \in 1..Len(rows) : j < k => blocks[j].start < blocks[k].start
        /\ \A a \in AnchorsBefore(Len(lines)) :
               ~(blocks[j].start < a /\ a < blocks[j].end)

\* two rows came out of a text that also has an era header with a code in it
C3_Witness ==
    /\ pc = "done"
    /\ Len(rows) = 2
    /\ \E k \in 0..(Len(lines) - 1) :
           IsEraHeader(Trim(lines[k + 1])) /\ codeRe(lines[k + 1]).found

RowCodesNonDecreasing ==
    \A j, k \in 1..Len(rows) :
        j < k => DigitsValue(rows[j].no) <= DigitsValue(rows[k].no)

SourceCodesNonDecreasing ==
    \A a, b \in AnchorsBefore(i) :
        a < b => DigitsValue(CodeOfLine(a)) <= DigitsValue(CodeOfLine(b))

\* C4 as claimed: on every input the codes of the rows, in the order of
\* emission, never decrease.
C4_CodesNeverDecrease == RowCodesNonDecreasing

\* C4 as amended: the codes of the rows never decrease exactly when the codes
\* of the anchoring lines never decrease down the source; the parser keeps
\* the order of the source and does not sort.
C4_CodesOrderedAsSource == RowCodesNonDecreasing <=> SourceCodesNonDecreasing

\* 0001 then 0002 in the source, 0001 then 0002 in the rows
C4_Witness ==
    /\ pc = "done"
    /\ Len(rows) = 2
    /\ DigitsValue(rows[1].no) < DigitsValue(rows[2].no)
    /\ SourceCodesNonDecreasing

\* -------------------- the tokens of the block of row j --------------------

\* every lexer match <<line, place on the line>> of the block of row j
Positions(j) ==
    UNION {{<<k, t>> : t \in 1..Len(findNumberTokens(lines[k + 1]))} :
              k \in blocks[j].start..(blocks[j].end - 1)}

TextAt(p) == findNumberTokens(lines[p[1] + 1])[p[2]].text

ValueAt(p) == parseNumberSimple(TextAt(p)).v

\* reading order
Before(p, q) == p[1] < q[1] \/ (p[1] = q[1] /\ p[2] < q[2])

TextsOf(j) == {TextAt(p) : p \in Positions(j)}

\* the matches that are not the code and parse as a number
NonCode(j) ==
    {p \in Positions(j) : TextAt(p) # rows[j].no /\ ~isNaN(parseNumberSimple(TextAt(p)))}

\* the matches of line k that are not the code, parsed or not
NonCodeOnLine(j, k) == {p \in Positions(j) : p[1] = k /\ TextAt(p) # rows[j].no}

PairLines(j) ==
    {k \in blocks[j].start..(blocks[j].end - 1) : Cardinality(NonCodeOnLine(j, k)) >= 2}

HasPairLine(j) == PairLines(j) # {}

LastPairLineOf(j) == CHOOSE k \in PairLines(j) : \A o \in PairLines(j) : o <= k

\* the lines after the last pair line that have a match other than the code
LaterNumberLines(j) ==
    {k \in (LastPairLineOf(j) + 1)..(blocks[j].end - 1) : NonCodeOnLine(j, k) # {}}

FirstLaterNumberLine(j) ==
    CHOOSE k \in LaterNumberLines(j) : \A o \in LaterNumberLines(j) : k <= o

LastOnLine(j, k) ==
    CHOOSE p \in NonCodeOnLine(j, k) : \A q \in NonCodeOnLine(j, k) : ~Before(p, q)

\* the one before the last on line k
SecondLastOnLine(j, k) ==
    CHOOSE p \in NonCodeOnLine(j, k) \ {LastOnLine(j, k)} :
        \A q \in NonCodeOnLine(j, k) \ {LastOnLine(j, k)} : ~Before(p, q)

\* the first of the tokens of S with the largest (smallest) value
FirstMax(S) ==
    CHOOSE p \in S : \A q \in S :
        ValueAt(q) < ValueAt(p) \/ (ValueAt(q) = ValueAt(p) /\ ~Before(q, p))

FirstMin(S) ==
    CHOOSE p \in S : \A q \in S :
        ValueAt(q) > ValueAt(p) \/ (ValueAt(q) = ValueAt(p) /\ ~Before(q, p))

\* the tokens left when the amount candidate is taken out
Remaining(j) == NonCode(j) \ {FirstMax(NonCode(j))}

PositiveRemaining(j) == {p \in Remaining(j) : ValueAt(p) > 0}

\* |x - a| for a product x and a count of hundredths a of any sign
SignedAbsDiff(x, a) ==
    IF x.neg = (a < 0) THEN AbsDiff([h |-> x.h, r |-> x.r], Abs(a))
    ELSE [h |-> x.h + Abs(a), r |-> x.r]

\* |q * p - amount candidate| for the tokens at a and b
PairDiff(j, a, b) ==
    SignedAbsDiff(Times(ValueAt(a), ValueAt(b)), ValueAt(FirstMax(NonCode(j))))

PairBefore(a, b, c, d) == Before(a, c) \/ (a = c /\ Before(b, d))

\* (a, b) is the closest ordered pair of S, the earliest of those as close
ClosestPair(j, S, a, b) ==
    /\ a \in S /\ b \in S /\ a # b
    /\ \A c, d \in S :
           c # d => /\ ~Less(PairDiff(j, c, d), PairDiff(j, a, b))
                    /\ PairDiff(j, c, d) = PairDiff(j, a, b) => ~PairBefore(c, d, a, b)

HalfUnit == [h |-> Scale \div 2, r |-> 0]

WithinHalf(d) == Less(d, HalfUnit) \/ d = HalfUnit

\* formatAmount(qty * price) of the row, '' when one of them does not parse
ProductOfRow(j) ==
    ProductText(parseNumberSimple(rows[j].qty), parseNumberSimple(rows[j].price))

\* the best-fit branch: no pair line, three or more tokens beside the code
InBestFit(j) == ~HasPairLine(j) /\ Cardinality(NonCode(j)) >= 3

\* no number of the block is below 0 (those that are, are the matter of C6)
NonNegative(j) == \A p \in NonCode(j) : ValueAt(p) >= 0

\* the lines of the item under the code line, as pasted
ItemBody == SubSeq(lines, 4, Len(lines))

\* the rule in force left no printed token for the amount, as C5 has it:
\* no number under the last pair line, or no third number in the block
NoThirdNumber(j) ==
    IF HasPairLine(j) THEN LaterNumberLines(j) = {} ELSE Cardinality(NonCode(j)) < 3

\* the same, as the code has it: no number under the last pair line, or
\* fewer than two positive tokens beside the amount candidate
NoPrintedAmount(j) ==
    IF HasPairLine(j) THEN LaterNumberLines(j) = {}
    ELSE NonCode(j) = {} \/ Cardinality(PositiveRemaining(j)) < 2

VerbatimQtyPrice(j) ==
    /\ rows[j].qty = <<>> \/ rows[j].qty \in TextsOf(j)
    /\ rows[j].price = <<>> \/ rows[j].price \in TextsOf(j)

\* C5 as claimed: qty and price are empty or the text of a token of the
\* row's own block; the amount is such a text, or, only when the block has
\* no printed number left for it, the formatted product qty * price.
\* Stated for the blocks whose numbers are all >= 0.
C5_OnlyPrintedNumbers ==
    \A j \in 1..Len(rows) :
      NonNegative(j) =>
        /\ VerbatimQtyPrice(j)
        /\ \/ rows[j].amount = <<>>
           \/ rows[j].amount \in TextsOf(j)
           \/ NoThirdNumber(j) /\ rows[j].amount = ProductOfRow(j)

\* C5 as amended: the amount is computed when no number stands under the
\* last pair line, or when a block without a pair line has fewer than two
\* positive tokens beside its largest one (a third printed number may exist
\* then); in no case is any other number emitted.
C5_PrintedOrProduct ==
    \A j \in 1..Len(rows) :
        /\ VerbatimQtyPrice(j)
        /\ \/ rows[j].amount = <<>>
           \/ rows[j].amount \in TextsOf(j)
           \/ NoPrintedAmount(j) /\ rows[j].amount = ProductOfRow(j)

\* 0.10 19,500.00 with nothing under it: the amount 1,950.00 is computed
C5_Witness ==
    /\ pc = "done"
    /\ Len(rows) = 1
    /\ rows[1].qty = <<"0", ".", "1", "0">>
    /\ rows[1].amount = <<"1", ",", "9", "5", "0", ".", "0", "0">>
    /\ rows[1].amount \notin TextsOf(1)

\* digits, separators, one point at most, after one currency glyph at most
\* and before one hyphen at most
NumberShape(s) ==
    LET glyph == s # <<>> /\ Head(s) \in {"\\", "[yen]"}
        sign  == s # <<>> /\ s[Len(s)] = "-"
        body  == SubSeq(s, IF glyph THEN 2 ELSE 1, IF sign THEN Len(s) - 1 ELSE Len(s))
    IN /\ \A p \in 1..Len(body) : IsDigit(body[p]) \/ body[p] \in {",", "."}
       /\ Cardinality({p \in 1..Len(body) : body[p] = "."}) <= 1

WellFormedNumber(s) ==
    \/ s = <<>>
    \/ /\ NumberShape(s)
       /\ ~isNaN(parseNumberSimple(s))
       /\ parseNumberSimple(s).v >= 0

\* C6: qty, price and amount of every row are empty or of the shape of a
\* printed number, and then parse to a number >= 0.
C6_NumbersWellFormed ==
    \A j \in 1..Len(rows) :
        /\ WellFormedNumber(rows[j].qty)
        /\ WellFormedNumber(rows[j].price)
        /\ WellFormedNumber(rows[j].amount)

\* C7 as claimed: a block with a pair line has a verbatim token as amount,
\* and an amount that is no token of the block comes only from the best-fit
\* branch (no pair line, three or more tokens).  Stated for the blocks whose
\* numbers are all >= 0.
C7_ComputedOnlyInBestFit ==
    \A j \in 1..Len(rows) :
      NonNegative(j) =>
        /\ HasPairLine(j) => rows[j].amount \in TextsOf(j)
        /\ (rows[j].amount # <<>> /\ rows[j].amount \notin TextsOf(j)) => InBestFit(j)

\* C7 as amended: the amount is a verbatim token when a number stands under
\* the last pair line, or when the best-fit search has two positive tokens
\* beside the largest; in every other case (nothing under the pair line,
\* exactly two tokens, no pair to select) it is the computed product or empty.
C7_PrintedWhenFound ==
    \A j \in 1..Len(rows) :
        IF NoPrintedAmount(j)
        THEN rows[j].amount \in {<<>>, ProductOfRow(j)}
        ELSE rows[j].amount # <<>> /\ rows[j].amount \in TextsOf(j)

\* 12.00, 300.00, 3600.00 on three lines: the amount stays 3600.00 as
\* printed, not 3,600.00
C7_Witness ==
    /\ pc = "done"
    /\ Len(rows) = 1
    /\ InBestFit(1)
    /\ rows[1].amount = <<"3", "6", "0", "0", ".", "0", "0">>
    /\ ProductOfRow(1) = <<"3", ",", "6", "0", "0", ".", "0", "0">>

\* C8: in a block with a pair line, qty and price are the last two tokens of
\* the last pair line, and the amount is the last token of the first line
\* under it that has a token; the fallback does not touch them.
C8_LastPairRule ==
    \A j \in 1..Len(rows) :
        HasPairLine(j) =>
            /\ rows[j].qty = TextAt(SecondLastOnLine(j, LastPairLineOf(j)))
            /\ rows[j].price = TextAt(LastOnLine(j, LastPairLineOf(j)))
            /\ LaterNumberLines(j) # {} =>
                   rows[j].amount = TextAt(LastOnLine(j, FirstLaterNumberLine(j)))

\* the block 0.10 / 0.10 19,500.00 / 1,950.00
C8_Witness ==
    /\ pc = "done"
    /\ Len(rows) = 1
    /\ ItemBody = << <<"0", ".", "1", "0">>,
                     <<"0", ".", "1", "0", " ", "1", "9", ",", "5", "0", "0", ".", "0", "0">>,
                     <<"1", ",", "9", "5", "0", ".", "0", "0">> >>
    /\ rows[1].qty = <<"0", ".", "1", "0">>
    /\ rows[1].price = <<"1", "9", ",", "5", "0", "0", ".", "0", "0">>
    /\ rows[1].amount = <<"1", ",", "9", "5", "0", ".", "0", "0">>

SomePairFits(j) ==
    \E a, b \in Remaining(j) : a # b /\ WithinHalf(PairDiff(j, a, b))

\* qty and price are the two smallest tokens, the amount their product
TwoSmallest(j) ==
    LET first  == FirstMin(NonCode(j))
        second == FirstMin(NonCode(j) \ {first})
    IN /\ rows[j].qty = TextAt(first)
       /\ rows[j].price = TextAt(second)
       /\ rows[j].amount = formatAmount(Times(ValueAt(first), ValueAt(second)))

\* C10 as claimed: in the best-fit branch a pair is selected only within 0.5
\* of the amount candidate; when no pair is, the two smallest tokens are qty
\* and price and the amount is their product.  Stated for the blocks whose
\* numbers are all >= 0.
C10_PairWithinTolerance ==
    \A j \in 1..Len(rows) :
        (InBestFit(j) /\ NonNegative(j)) =>
            IF SomePairFits(j)
            THEN \E a, b \in Remaining(j) :
                     /\ a # b /\ WithinHalf(PairDiff(j, a, b))
                     /\ rows[j].qty = TextAt(a)
                     /\ rows[j].price = TextAt(b)
            ELSE TwoSmallest(j)

\* C10 as amended: the closest pair is selected however far its product is
\* from the amount candidate, and the amount stays the printed candidate;
\* the two smallest tokens with a computed amount are used only when fewer
\* than two of the tokens left are above 0.
C10_PairWhateverDistance ==
    \A j \in 1..Len(rows) :
        InBestFit(j) =>
            IF Cardinality(PositiveRemaining(j)) >= 2
            THEN /\ rows[j].amount = TextAt(FirstMax(NonCode(j)))
                 /\ rows[j].qty \in {TextAt(a) : a \in PositiveRemaining(j)}
                 /\ rows[j].price \in {TextAt(a) : a \in PositiveRemaining(j)}
            ELSE TwoSmallest(j)

\* 0.10, 12.00, 300.00: no pair within 0.5 of 300.00, and still the amount
\* is 300.00 as printed with the pair (0.10, 12.00)
C10_Witness ==
    /\ pc = "done"
    /\ Len(rows) = 1
    /\ InBestFit(1)
    /\ ~SomePairFits(1)
    /\ rows[1].qty = <<"0", ".", "1", "0">>
    /\ rows[1].price = <<"1", "2", ".", "0", "0">>
    /\ rows[1].amount = <<"3", "0", "0", ".", "0", "0">>

\* -------------------- the last page: items, marker, summary lines ----------

\* 0001 2 3 / 969,582.00
ItemBig ==
    <<"0", "0", "0", "1", " ", "2", " ", "3", "\n",
      "9", "6", "9", ",", "5", "8", "2", ".", "0", "0">>
\* 0002 2 3 / 969,582.50
ItemOff ==
    <<"0", "0", "0", "2", " ", "2", " ", "3", "\n",
      "9", "6", "9", ",", "5", "8", "2", ".", "5", "0">>
\* 以　下　余　白
PlainMarker == <<"[i]", "[isp]", "[ka2]", "[isp]", "[yo]", "[isp]", "[haku]">>
\* 969,582.00 / \1,047,148- / 77,566
SummaryLines ==
    <<"9", "6", "9", ",", "5", "8", "2", ".", "0", "0", "\n",
      "\\", "1", ",", "0", "4", "7", ",", "1", "4", "8", "-", "\n",
      "7", "7", ",", "5", "6", "6">>
\* ten blank lines
Padding == <<"\n", "\n", "\n", "\n", "\n", "\n", "\n", "\n", "\n">>

\* 令和7年11月 / <vendor>
HeadA == JoinLines(<<EraLine, VendorLine>>)

\* the foot of the last page: the marker line, then the summary lines
LastPage == PlainMarker \o <<"\n">> \o SummaryLines

LastPagePieces ==
    {HeadA, ItemBig, ItemOff, PlainMarker, MarkerPiece, LastPage, Padding, NumberPiece}

\* most characters of a last page
MaxText == 80

InitSummary ==
    \E ps \in SeqsUpTo(LastPagePieces, MaxPieces) :
        /\ Len(JoinLines(ps)) <= MaxText
        /\ Called(JoinLines(ps))

SpecSummary == InitSummary /\ [][Next]_vars

\* -------------------- the summary, read off the lines --------------------

MarkerLines == {k \in 0..(Len(lines) - 1) : IsRemainderBlank(Trim(lines[k + 1]))}

LastMarkerLine == CHOOSE k \in MarkerLines : \A o \in MarkerLines : o <= k

\* where the summary is looked for: under the last marker, or the last lines
ScanStart ==
    IF MarkerLines # {} THEN LastMarkerLine + 1
    ELSE IF Len(lines) > SummaryTailLines THEN Len(lines) - SummaryTailLines
    ELSE 0

\* the scanned lines that bear a token
TokenLines == {k \in ScanStart..(Len(lines) - 1) : findNumberTokens(lines[k + 1]) # <<>>}

\* the n-th of them, n <= their number
RECURSIVE TokenLine(_)
TokenLine(n) ==
    IF n = 1 THEN CHOOSE k \in TokenLines : \A o \in TokenLines : k <= o
    ELSE CHOOSE k \in TokenLines :
             /\ k > TokenLine(n - 1)
             /\ \A o \in TokenLines : o > TokenLine(n - 1) => k <= o

FinalToken(k) ==
    LET tokens == findNumberTokens(lines[k + 1]) IN tokens[Len(tokens)].text

SummaryFound == Cardinality(TokenLines) >= 3

\* the amount of row j in hundredths, 0 when it does not parse
AmountValue(j) ==
    LET v == parseNumberSimple(rows[j].amount) IN IF isNaN(v) THEN 0 ELSE v.v

RECURSIVE AmountsUpTo(_)
AmountsUpTo(j) == IF j = 0 THEN 0 ELSE AmountsUpTo(j - 1) + AmountValue(j)

BaseAgrees ==
    LET b == parseNumberSimple(summary.base)
    IN /\ ~isNaN(b)
       /\ 2 * (b.v - summary.calcBase) < Scale
       /\ 2 * (summary.calcBase - b.v) < Scale

\* C11: calcBase is the sum of the amounts of the rows that parse, and
\* baseCheckMark is "<" when base parses and |base - calcBase| < 0.5, empty
\* when not.
C11_SumAndMark ==
    pc = "done" =>
        /\ summary.calcBase = AmountsUpTo(Len(rows))
        /\ summary.baseCheckMark = (IF BaseAgrees THEN <<"<">> ELSE <<>>)

\* the amounts add up to 969,582.00, base is 969,582.00: the mark is set
C11_Witness ==
    /\ pc = "done"
    /\ Len(rows) >= 1
    /\ summary.calcBase = 969582 * Scale
    /\ summary.base = <<"9", "6", "9", ",", "5", "8", "2", ".", "0", "0">>
    /\ summary.baseCheckMark = <<"<">>

\* the amounts add up to 969,582.50, 0.5 off the base: the mark is empty
C11_WitnessOff ==
    /\ pc = "done"
    /\ summary.calcBase = 969582 * Scale + Scale \div 2
    /\ summary.base = <<"9", "6", "9", ",", "5", "8", "2", ".", "0", "0">>
    /\ summary.baseCheckMark = <<>>

\* C12: with a marker line in the text and three token-bearing lines under
\* the last one, base is the last token of the first of them as printed,
\* total the last token of the second without currency glyphs and trailing
\* hyphens, tax the last token of the third as printed.
C12_SummaryUnderLastMarker ==
    (pc = "done" /\ MarkerLines # {} /\ SummaryFound) =>
        /\ summary.base = FinalToken(TokenLine(1))
        /\ summary.total =
               Trim(DropHyphens(Without(FinalToken(TokenLine(2)), {"[yen]", "\\"})))
        /\ summary.tax = FinalToken(TokenLine(3))

\* two marker lines, and under the last 969,582.00, \1,047,148-, 77,566
C12_Witness ==
    /\ pc = "done"
    /\ Cardinality(MarkerLines) = 2
    /\ SummaryFound
    /\ FinalToken(TokenLine(2)) = <<"\\", "1", ",", "0", "4", "7", ",", "1", "4", "8", "-">>
    /\ summary.base = <<"9", "6", "9", ",", "5", "8", "2", ".", "0", "0">>
    /\ summary.total = <<"1", ",", "0", "4", "7", ",", "1", "4", "8">>
    /\ summary.tax = <<"7", "7", ",", "5", "6", "6">>

MaxCalls == 3

\* the vendor of the call before, kept
keptVendor(previous) == previous

\* line 133: var currentVendor = '' at every call
freshVendor(previous) == <<>>

\* the texts handed to parseLedgerText: an item with no page head, a page
\* head with an item, a last page with an item, and nothing
CallTexts ==
    {ItemPiece,
     JoinLines(<<EraLine, VendorLine, ItemPiece2>>),
     JoinLines(<<ItemBig, LastPage>>),
     <<>>}

\* parseLedgerText has returned and is called again, on any of the texts:
\* every variable of the function is declared anew (lines 126-138, 622-623)
CallAgain ==
    /\ pc = "done"
    /\ calls < MaxCalls
    /\ \E t \in CallTexts :
           /\ text' = t
           /\ lines' = SplitLines(t)
    /\ i' = 0
    /\ currentVendor' = freshVendor(currentVendor)
    /\ rows' = <<>>
    /\ blocks' = <<>>
    /\ summary' = Undefined
    /\ pc' = "details"
    /\ returned' = returned \cup {[text |-> text, rows |-> rows, summary |-> summary]}
    /\ calls' = calls + 1
    /\ UNCHANGED <<data, pages, offset>>

NextCalls == Next \/ CallAgain

InitCalls == \E t \in CallTexts : Called(t)

SpecCalls == InitCalls /\ [][NextCalls]_vars

\* C14: a call on a text returns the rows and the summary that every
\* earlier call on the same text returned, whatever was parsed in between.
C14_SameTextSameResult ==
    pc = "done" =>
        \A r \in returned :
            r.text = text => r.rows = rows /\ r.summary = summary

\* the third call, on the text of the first, after a call on a text with
\* another vendor: one row, and no vendor as at first
C14_Witness ==
    /\ pc = "done"
    /\ calls = 3
    /\ rows # <<>>
    /\ rows[1].vendor = <<>>
    /\ \E r \in returned : r.text = text
    /\ \E r \in returned : r.text # text /\ r.rows # <<>> /\ r.rows[1].vendor # <<>>

\* -------------------- one item with its name lines --------------------

\* １Ｌ<name>
FullWidthLine == <<"[fw1]", "[fwL]", "[mame]">>
\* １Ｌ<name> 12.00
FullWidthPair == <<"[fw1]", "[fwL]", "[mame]", " ", "1", "2", ".", "0", "0">>
NamePart      == <<"[mame]">>
\* 12.00 300.00
PairOfNumbers == <<"1", "2", ".", "0", "0", " ", "3", "0", "0", ".", "0", "0">>
\* 3,600.00
AmountLine    == <<"3", ",", "6", "0", "0", ".", "0", "0">>
\* （黄） PC 11.00
UnitLine      == <<"[ki]", " ", "P", "C", " ", "1", "1", ".", "0", "0">>
\* 1 -　以　下　余　白
DashMarker    == <<"1", " ", "-", "[isp]", "[i]", "[isp]", "[ka2]", "[isp]", "[yo]",
                   "[isp]", "[haku]">>

NameLines ==
    {FullWidthLine, FullWidthPair, NamePart, PairOfNumbers, AmountLine, UnitLine, DashMarker}

InitName ==
    \E body \in SeqsUpTo(NameLines, MaxItemLines) :
        Called(JoinLines(<<EraLine, VendorLine, CodeLine>> \o body))

SpecName == InitName /\ [][Next]_vars

HasFullWidthDigit(s) == \E p \in 1..Len(s) : IsFullWidthDigit(s[p])

\* the name parts that the lines of block j give, read off the lines: the
\* line right under the code line starts with a full-width digit
StartsFullWidth(k) == lines[k + 1] # <<>> /\ IsFullWidthDigit(lines[k + 1][1])

\* C15: no lexer match of a block holds a full-width digit, none is emitted
\* as qty, price or amount, and a line right under the code line that starts
\* with a full-width digit is in the name in full.
C15_FullWidthNeverNumeric ==
    \A j \in 1..Len(rows) :
        /\ \A p \in Positions(j) : ~HasFullWidthDigit(TextAt(p))
        /\ ~HasFullWidthDigit(rows[j].qty)
        /\ ~HasFullWidthDigit(rows[j].price)
        /\ ~HasFullWidthDigit(rows[j].amount)
        /\ (blocks[j].start + 1 < blocks[j].end /\ StartsFullWidth(blocks[j].start + 1)) =>
               ContainsWord(rows[j].name, FullWidthLine)

ParsesOrEmpty(s) == s = <<>> \/ ~isNaN(parseNumberSimple(s))

\* no match of block j holds a full-width digit (those that do are the
\* matter of C15)
NoFullWidth(j) == \A p \in Positions(j) : ~HasFullWidthDigit(TextAt(p))

\* C16: a lexer match that does not parse is dropped: a pair line has two
\* matches that parse, qty, price and amount of every row parse or are
\* empty, and so do base, tax and total of the summary.  Stated for the
\* blocks without a full-width digit.
C16_UnparsedDropped ==
    /\ \A j \in 1..Len(rows) :
         NoFullWidth(j) =>
           /\ ParsesOrEmpty(rows[j].qty)
           /\ ParsesOrEmpty(rows[j].price)
           /\ ParsesOrEmpty(rows[j].amount)
           /\ HasPairLine(j) =>
                  Cardinality({p \in NonCode(j) : p[1] = LastPairLineOf(j)}) >= 2
    /\ pc = "done" =>
           /\ ParsesOrEmpty(summary.base)
           /\ ParsesOrEmpty(summary.tax)
           /\ ParsesOrEmpty(summary.total)

\* -------------------- page heads and items --------------------

\* 令和7年2月 / <another vendor>
HeadB == <<"[rei]", "[wa]", "7", "[nen]", "2", "[gatsu]", "\n", " ", "[kabu]", " ">>
\* <vendor> 0125-1
VendorPhone == <<"[mame]", " ", "0", "1", "2", "5", "-", "1">>

PagePieces ==
    {HeadA, HeadB, EraLine, EraPiece, VendorPhone, TitlePiece, ItemPiece, ItemPiece2,
     BlankPiece}

InitVendor == \E ps \in SeqsUpTo(PagePieces, MaxPieces) : Called(JoinLines(ps))

SpecVendor == InitVendor /\ [][Next]_vars

IsEraLine(k) == IsEraHeader(Trim(lines[k + 1]))

\* line k lies in the block of a row, its code line included
InBlock(k) == \E j \in 1..Len(blocks) : blocks[j].start <= k /\ k < blocks[j].end

\* the era headers above line s: all of them, and those the loop came to
ErasAbove(s) == {k \in 0..(s - 1) : IsEraLine(k)}

ErasMetAbove(s) == {k \in ErasAbove(s) : ~InBlock(k)}

\* the first non-blank line under line k, trimmed; there is one
LineUnder(k) ==
    LET v == CHOOSE l \in (k + 1)..(Len(lines) - 1) :
                 /\ Trim(lines[l + 1]) # <<>>
                 /\ \A o \in (k + 1)..(l - 1) : Trim(lines[o + 1]) = <<>>
    IN v

VendorFrom(eras) ==
    IF eras = {} THEN <<>>
    ELSE Trim(lines[LineUnder(CHOOSE k \in eras : \A o \in eras : o <= k) + 1])

\* C17 as claimed: the vendor of a row is the first non-blank line under the
\* last era header above the row's code line, wherever that header stands,
\* and empty when there is none.
C17_VendorOfLastEra ==
    \A j \in 1..Len(rows) : rows[j].vendor = VendorFrom(ErasAbove(blocks[j].start))

\* C17 as amended: the vendor of a row is the first non-blank line, trimmed,
\* under the last era header above the row's code line that lies in no
\* item's block, and empty when there is none; an era header inside a block
\* is passed over with the block.
C17_VendorOfLastEraMet ==
    \A j \in 1..Len(rows) : rows[j].vendor = VendorFrom(ErasMetAbove(blocks[j].start))

\* two page heads, then an item: it has the vendor of the second
C17_Witness ==
    /\ pc = "done"
    /\ Len(rows) = 1
    /\ Cardinality(ErasMetAbove(blocks[1].start)) = 2
    /\ rows[1].vendor = <<"[kabu]">>

\* an era header in the block of the first item: the second item has no vendor
C17_WitnessInBlock ==
    /\ pc = "done"
    /\ Len(rows) = 2
    /\ ErasAbove(blocks[2].start) # {}
    /\ ErasMetAbove(blocks[2].start) = {}
    /\ rows[2].vendor = <<>>

\* C18: no era header anchors a row, and the line taken as vendor under an
\* era header lies in no block: it anchors no row and gives no name, unit or
\* number to one.
C18_VendorLineOutsideBlocks ==
    /\ \A j \in 1..Len(blocks) : ~IsEraLine(blocks[j].start)
    /\ pc = "done" =>
           \A k \in 0..(Len(lines) - 1) :
               (IsEraLine(k) /\ ~InBlock(k)
                    /\ \E l \in (k + 1)..(Len(lines) - 1) : Trim(lines[l + 1]) # <<>>)
                   => ~InBlock(LineUnder(k))

\* -------------------- the lines that end a block --------------------

\* 納　地 ... 業 者 名
HeaderPiece == <<"[nou]", "[isp]", "[chi]", "[isp]", "[gyou]", " ", "[sha]", " ", "[mei]">>
\* 課税対象額 7
BasePiece   == <<"[ka]", "[zei]", "[tai]", "[shou]", "[gaku]", " ", "7">>
\* 12 <name> / 3,600.00
TwoLines    == <<"1", "2", " ", "[mame]", "\n", "3", ",", "6", "0", "0", ".", "0", "0">>
\* 1234 <name> 5
NoZeroPiece == <<"1", "2", "3", "4", " ", "[mame]", " ", "5">>
\* <name> 10001
LongRunPiece == <<"[mame]", " ", "1", "0", "0", "0", "1">>

\* 0001, <name> 2
CommaCode == <<"0", "0", "0", "1", ",", " ", "[mame]", " ", "2">>

\* 納入台帳 0002 7
TitleCode == <<"[nou]", "[nyuu]", "[dai]", "[chou]", " ", "0", "0", "0", "2", " ", "7">>

BlockPieces ==
    {ItemPiece2, TwoLines, HeaderPiece, TitlePiece, BasePiece, DashMarker, BlankPiece,
     EraPiece, NoZeroPiece, LongRunPiece, CommaCode, TitleCode}

InitBlock == \E ps \in SeqsUpTo(BlockPieces, MaxPieces) : Called(JoinLines(ps))

SpecBlock == InitBlock /\ [][Next]_vars

\* "0" and three digits with no digit after them, at position p of line
ZeroLedCodeAt(line, p) ==
    /\ p + 3 <= Len(line)
    /\ line[p] = "0"
    /\ IsDigit(line[p + 1]) /\ IsDigit(line[p + 2]) /\ IsDigit(line[p + 3])
    /\ ~(p + 4 <= Len(line) /\ IsDigit(line[p + 4]))

HasZeroLedCode(k) == \E p \in 1..Len(lines[k + 1]) : ZeroLedCodeAt(lines[k + 1], p)

\* a token of four digits: no digit before it, none after it
FourDigitTokenAt(line, p) ==
    /\ p + 3 <= Len(line)
    /\ \A q \in p..(p + 3) : IsDigit(line[q])
    /\ ~(p + 4 <= Len(line) /\ IsDigit(line[p + 4]))
    /\ ~(p > 1 /\ IsDigit(line[p - 1]))

HasFourDigitToken(k) == \E p \in 1..Len(lines[k + 1]) : FourDigitTokenAt(lines[k + 1], p)

NonBlank(k) == Trim(lines[k + 1]) # <<>>

IsHeaderLine(k) == IsPageHeader(Trim(lines[k + 1]))

IsMarkerLine(k) == IsRemainderBlank(Trim(lines[k + 1]))

\* the lines under s that end the block of s
Terminators(s) ==
    {k \in (s + 1)..(Len(lines) - 1) :
        NonBlank(k) /\ (HasZeroLedCode(k) \/ IsHeaderLine(k) \/ IsMarkerLine(k))}

FirstTerminator(s) == CHOOSE k \in Terminators(s) : \A o \in Terminators(s) : k <= o

\* the end of the block of s: at a code line or a header, past a marker line
EndOfBlock(s) ==
    IF Terminators(s) = {} THEN Len(lines)
    ELSE LET k == FirstTerminator(s)
         IN IF HasZeroLedCode(k) \/ IsHeaderLine(k) THEN k ELSE k + 1

\* C19: the block of the code line s ends at its first non-blank terminator
\* line k: e = k at a line with a code or a page or section header, e = k + 1
\* at the remainder-blank line, e = the number of lines without one; and the
\* row is the row of the lines s .. e - 1 alone.
C19_BlockEnd ==
    \A j \in 1..Len(rows) :
        /\ blocks[j].end = EndOfBlock(blocks[j].start)
        /\ rows[j] = rowOf(SubSeq(lines, blocks[j].start + 1, blocks[j].end), 0,
                           rows[j].vendor)

\* a block that ends past the remainder-blank line, with a line under it
C19_Witness ==
    /\ pc = "done"
    /\ Len(rows) = 1
    /\ IsMarkerLine(blocks[1].end - 1)
    /\ blocks[1].end < Len(lines)
    /\ NonBlank(blocks[1].end)
    /\ rows[1].no = <<"0", "0", "0", "2">>
    /\ rows[1].qty = <<"1">>

\* a block that ends at a header line, after a blank line
C19_WitnessHeader ==
    /\ pc = "done"
    /\ Len(rows) = 1
    /\ blocks[1].end < Len(lines)
    /\ IsHeaderLine(blocks[1].end)
    /\ ~NonBlank(blocks[1].end - 1)

\* the lines the loop came to outside the blocks, era headers apart
Scanned(k) == k < i /\ ~IsEraLine(k) /\ \A j \in 1..Len(blocks) :
                  ~(blocks[j].start < k /\ k < blocks[j].end)

Anchors(k) == \E j \in 1..Len(blocks) : blocks[j].start = k

\* C20 as claimed: a line starts a block exactly when it has a token of four
\* digits, of any first digit, with no digit before or after it; the token
\* is the code.
C20_FourDigitTokenAnchors ==
    \A k \in 0..(Len(lines) - 1) :
        Scanned(k) => (Anchors(k) <=> HasFourDigitToken(k))

\* C20 as amended: a line starts a block exactly when it has a "0" followed
\* by three digits and by no further digit, digits before the "0" or not;
\* the first such four digits of the line are the code.
C20_ZeroLedCodeAnchors ==
    /\ \A k \in 0..(Len(lines) - 1) :
           Scanned(k) => (Anchors(k) <=> HasZeroLedCode(k))
    /\ \A j \in 1..Len(rows) :
           \E p \in 1..Len(lines[blocks[j].start + 1]) :
               /\ ZeroLedCodeAt(lines[blocks[j].start + 1], p)
               /\ \A o \in 1..(p - 1) : ~ZeroLedCodeAt(lines[blocks[j].start + 1], o)
               /\ rows[j].no = SubSeq(lines[blocks[j].start + 1], p, p + 3)

\* 1234 starts no block, the 0001 of 10001 starts one
C20_Witness ==
    /\ pc = "done"
    /\ Len(lines) = 2
    /\ lines[1] = NoZeroPiece
    /\ lines[2] = LongRunPiece
    /\ Len(rows) = 1
    /\ blocks[1].start = 1
    /\ rows[1].no = <<"0", "0", "0", "1">>

\* -------------------- the name and the unit of one item --------------------

\* 0003
BareCode   == <<"0", "0", "0", "3">>
\* 0004 <name> 500KG
GluedCode  == <<"0", "0", "0", "4", " ", "[mame]", " ", "5", "0", "0", "K", "G">>
\* 0005 KG<name>
InnerCode  == <<"0", "0", "0", "5", " ", "K", "G", "[mame]">>
\* EA
UnitOnly   == <<"E", "A">>
\* <name>KG5
GluedLine  == <<"[mame]", "K", "G", "5">>
\* 500KG
DigitsUnit == <<"5", "0", "0", "K", "G">>

AssembleCodes == {BareCode, CodeLine, ItemPiece2, GluedCode, InnerCode}

\* 300.00 12.00
PairDescending == <<"3", "0", "0", ".", "0", "0", " ", "1", "2", ".", "0", "0">>

AssembleLines ==
    {NamePart, UnitOnly, UnitLine, GluedLine, PairOfNumbers, PairDescending, DigitsUnit}

InitAssemble ==
    \E c \in AssembleCodes : \E body \in SeqsUpTo(AssembleLines, MaxItemLines) :
        Called(JoinLines(<<EraLine, VendorLine, c>> \o body))

SpecAssemble == InitAssemble /\ [][Next]_vars

\* a unit code at position p of t, with white space or the end of t after it
UnitCodeAt(t, p) ==
    /\ p + 1 <= Len(t)
    /\ <<t[p], t[p + 1]>> \in Units
    /\ ~(p + 2 <= Len(t) /\ ~IsSpace(t[p + 2]))

HasUnitToken(t) == \E p \in 1..Len(t) : UnitCodeAt(t, p)

FirstUnitAt(t) == CHOOSE p \in 1..Len(t) : UnitCodeAt(t, p) /\ \A o \in 1..(p - 1) : ~UnitCodeAt(t, o)

\* the text before the first unit token of t, and that token
BeforeUnit(t) == TrimRight(SubSeq(t, 1, FirstUnitAt(t) - 1))

UnitOf(t) == SubSeq(t, FirstUnitAt(t), FirstUnitAt(t) + 1)

HasNumber(l) == \E p \in 1..Len(l) : IsNumberChar(l[p])

\* the text before the first numeric token of l
BeforeNumber(l) ==
    Trim(SubSeq(l, 1, (CHOOSE p \in 1..Len(l) :
                          IsNumberChar(l[p]) /\ \A o \in 1..(p - 1) : ~IsNumberChar(l[o])) - 1))

\* what follows the four digits of the code on the code line of row j
CodeTail(j) ==
    LET l == lines[blocks[j].start + 1]
        c == CHOOSE p \in 1..Len(l) : ZeroLedCodeAt(l, p) /\ \A o \in 1..(p - 1) : ~ZeroLedCodeAt(l, o)
    IN Trim(SubSeq(l, c + 4, Len(l)))

HeadFragment(j) ==
    IF HasUnitToken(CodeTail(j)) THEN BeforeUnit(CodeTail(j)) ELSE CodeTail(j)

\* line k has a unit token or a numeric token: the name goes no further
EndsName(k) == NonBlank(k) /\ (HasUnitToken(Trim(lines[k + 1])) \/ HasNumber(lines[k + 1]))

\* the first such line under the code line of row j, the end of the block without one
LastNameLine(j) ==
    LET under == {k \in (blocks[j].start + 1)..(blocks[j].end - 1) : EndsName(k)}
    IN IF under = {} THEN blocks[j].end ELSE CHOOSE k \in under : \A o \in under : k <= o

\* what line k gives to the name
FragmentOf(k) ==
    LET t == Trim(lines[k + 1])
    IN IF HasUnitToken(t) THEN BeforeUnit(t)
       ELSE IF HasNumber(lines[k + 1]) THEN BeforeNumber(lines[k + 1])
       ELSE t

RECURSIVE FragmentsFrom(_, _)
FragmentsFrom(j, k) ==
    IF k >= blocks[j].end \/ k > LastNameLine(j) THEN <<>>
    ELSE FragmentOf(k) \o FragmentsFrom(j, k + 1)

\* the fragments of the block of row j, joined in order
Concatenation(j) == HeadFragment(j) \o FragmentsFrom(j, blocks[j].start + 1)

\* the unit token of the code line, else that of the line that ends the name
ResolvedUnit(j) ==
    IF HasUnitToken(CodeTail(j)) THEN UnitOf(CodeTail(j))
    ELSE IF LastNameLine(j) < blocks[j].end /\ HasUnitToken(Trim(lines[LastNameLine(j) + 1]))
         THEN UnitOf(Trim(lines[LastNameLine(j) + 1]))
    ELSE <<>>

EndsWithUnit(s) == Len(s) >= 2 /\ <<s[Len(s) - 1], s[Len(s)]>> \in Units

IsPrefix(s, t) == Len(s) <= Len(t) /\ SubSeq(t, 1, Len(s)) = s

\* C21 as claimed: the name of a row is the fragment of the code-line tail
\* followed, in order, by the fragments of the lines under it: such a line
\* without numeric token and unit token in full, the first line with a unit
\* token up to the unit, the first line with a numeric token and no unit
\* token up to its first number, nothing after either of the two.
C21_NameIsConcatenation ==
    \A j \in 1..Len(rows) : rows[j].name = Concatenation(j)

\* C21 as amended: when a unit token was found, on the code line or on the
\* line that ends the name, it is the unit (that of the code line first) and
\* the name is the concatenation of the fragments; when none was found, a
\* unit code that ends the concatenation is taken off it and is the unit.
C21_NameAndUnitAssembled ==
    \A j \in 1..Len(rows) :
        IF ResolvedUnit(j) # <<>>
        THEN rows[j].name = Concatenation(j) /\ rows[j].unit = ResolvedUnit(j)
        ELSE IF EndsWithUnit(Concatenation(j))
        THEN /\ rows[j].name \o rows[j].unit = Concatenation(j)
             /\ Len(rows[j].unit) = 2
        ELSE rows[j].name = Concatenation(j) /\ rows[j].unit = <<>>

\* the lines 0003, <name>, EA: the name is <name>, the unit EA
C21_Witness ==
    /\ pc = "done"
    /\ Len(rows) = 1
    /\ lines[blocks[1].start + 1] = BareCode
    /\ blocks[1].end = blocks[1].start + 3
    /\ lines[blocks[1].start + 2] = NamePart
    /\ lines[blocks[1].start + 3] = UnitOnly
    /\ rows[1].name = NamePart
    /\ rows[1].unit = UnitOnly

\* the lines 0001 <name>, <name>KG5: the unit code before the 5 leaves the name
C21_WitnessSuffix ==
    /\ pc = "done"
    /\ Len(rows) = 1
    /\ ResolvedUnit(1) = <<>>
    /\ EndsWithUnit(Concatenation(1))
    /\ rows[1].unit = <<"K", "G">>
    /\ rows[1].name = <<"[mame]", "[mame]">>

\* every unit token of t stands right after a digit
GluedOnly(t) ==
    /\ HasUnitToken(t)
    /\ \A p \in 1..Len(t) : UnitCodeAt(t, p) => (p > 1 /\ IsDigit(t[p - 1]))

\* C22 as claimed: a unit code of the code-line tail that stands right after
\* digits is not taken as the unit on that line: the tail stays whole at the
\* head of the name (its last unit code may still be taken off at the end).
C22_UnitNotAfterDigits ==
    \A j \in 1..Len(rows) :
        GluedOnly(CodeTail(j)) => IsPrefix(CodeTail(j), rows[j].name \o rows[j].unit)

\* C22 as amended: the first unit code of the code-line tail that is followed
\* by white space or ends the tail is the unit of the row, digits before it
\* or not, and the name starts with what stands before it; a tail without
\* one stays whole at the head of the name.
C22_UnitWhateverPrecedes ==
    \A j \in 1..Len(rows) :
        IF HasUnitToken(CodeTail(j))
        THEN /\ rows[j].unit = UnitOf(CodeTail(j))
             /\ IsPrefix(BeforeUnit(CodeTail(j)), rows[j].name)
        ELSE IsPrefix(CodeTail(j), rows[j].name \o rows[j].unit)

\* 0004 <name> 500KG, then <name>: unit KG, name "<name> 500<name>"
C22_Witness ==
    /\ pc = "done"
    /\ Len(rows) = 1
    /\ lines[blocks[1].start + 1] = GluedCode
    /\ GluedOnly(CodeTail(1))
    /\ rows[1].unit = <<"K", "G">>
    /\ rows[1].name = <<"[mame]", " ", "5", "0", "0", "[mame]">>

\* -------------------- the code among the numeric tokens --------------------

\* the place on its line of the code that anchors the block of row j
CodePlace(j) ==
    LET l == lines[blocks[j].start + 1]
    IN CHOOSE p \in 1..Len(l) : ZeroLedCodeAt(l, p) /\ \A o \in 1..(p - 1) : ~ZeroLedCodeAt(l, o)

\* the lexer match of the code line that holds the code
CodeToken(j) ==
    CHOOSE p \in Positions(j) :
        LET t == findNumberTokens(lines[p[1] + 1])[p[2]]
        IN /\ p[1] = blocks[j].start
           /\ t.index + 1 <= CodePlace(j)
           /\ CodePlace(j) + 3 <= t.index + Len(t.text)

\* the other lexer matches of the block
BesideCode(j) == Positions(j) \ {CodeToken(j)}

\* C23: the lexer match that holds the code of the block is out of the
\* classification: its text is not the qty, price or amount of the row (no
\* other match of the block has the same text), a block with no other match
\* has all three empty, and a block with one other match has no price and no
\* amount, as the code makes no pair and is not counted.
C23_CodeTokenFilteredOut ==
    \A j \in 1..Len(rows) :
        /\ (\A p \in BesideCode(j) : TextAt(p) # TextAt(CodeToken(j))) =>
               /\ rows[j].qty # TextAt(CodeToken(j))
               /\ rows[j].price # TextAt(CodeToken(j))
               /\ rows[j].amount # TextAt(CodeToken(j))
        /\ BesideCode(j) = {} =>
               rows[j].qty = <<>> /\ rows[j].price = <<>> /\ rows[j].amount = <<>>
        /\ Cardinality(BesideCode(j)) = 1 =>
               rows[j].price = <<>> /\ rows[j].amount = <<>>

\* -------------------- two numbers in a block --------------------

\* every lexer match of the block of row j but the code parses as a number
AllParse(j) == {p \in Positions(j) : TextAt(p) # rows[j].no} = NonCode(j)

\* the first and the last of the tokens of S in reading order
FirstOf(S) == CHOOSE p \in S : \A q \in S : ~Before(q, p)

LastOf(S) == CHOOSE p \in S : \A q \in S : ~Before(p, q)

\* C24 as claimed: a block with exactly two numeric tokens beside the code,
\* on one line or on two, has the one of the smaller value as qty, the other
\* as price, and the formatted product of the two as amount.
C24_SmallerIsQuantity ==
    \A j \in 1..Len(rows) :
        (AllParse(j) /\ Cardinality(NonCode(j)) = 2) =>
            /\ rows[j].qty = TextAt(FirstMin(NonCode(j)))
            /\ rows[j].price = TextAt(CHOOSE p \in NonCode(j) : p # FirstMin(NonCode(j)))
            /\ rows[j].amount = ProductOfRow(j)

\* C24 as amended: of exactly two numeric tokens beside the code, two that
\* stand on one line are qty and price in reading order, whatever their
\* values; two on different lines are qty and price by value, the smaller
\* one (the first of two equal ones) being the qty; the amount is the
\* formatted product in both cases.
C24_TwoTokens ==
    \A j \in 1..Len(rows) :
        (AllParse(j) /\ Cardinality(NonCode(j)) = 2) =>
            /\ HasPairLine(j) =>
                   /\ rows[j].qty = TextAt(FirstOf(NonCode(j)))
                   /\ rows[j].price = TextAt(LastOf(NonCode(j)))
            /\ ~HasPairLine(j) =>
                   /\ rows[j].qty = TextAt(FirstMin(NonCode(j)))
                   /\ rows[j].price = TextAt(CHOOSE p \in NonCode(j) : p # FirstMin(NonCode(j)))
            /\ rows[j].amount = ProductOfRow(j)
            /\ rows[j].amount # <<>>

\* 500 on one line, 5 on a later one: qty 5, price 500, amount 2,500.00
C24_Witness ==
    /\ pc = "done"
    /\ Len(rows) = 1
    /\ Cardinality(NonCode(1)) = 2
    /\ ~HasPairLine(1)
    /\ ValueAt(FirstOf(NonCode(1))) > ValueAt(LastOf(NonCode(1)))
    /\ rows[1].qty = <<"5">>
    /\ rows[1].price = <<"5", "0", "0">>
    /\ rows[1].amount = <<"2", ",", "5", "0", "0", ".", "0", "0">>

\* 300.00 12.00 on one line: qty 300.00, price 12.00
C24_WitnessOneLine ==
    /\ pc = "done"
    /\ Len(rows) = 1
    /\ Cardinality(NonCode(1)) = 2
    /\ HasPairLine(1)
    /\ rows[1].qty = <<"3", "0", "0", ".", "0", "0">>
    /\ rows[1].price = <<"1", "2", ".", "0", "0">>
    /\ rows[1].amount = <<"3", ",", "6", "0", "0", ".", "0", "0">>

\* -------------------- the amount that is computed --------------------

\* s is [-]d,ddd,ddd.dd: groups of three digits parted by commas, a point,
\* two digits
GroupedShape(s) ==
    LET body    == IF s # <<>> /\ Head(s) = "-" THEN Tail(s) ELSE s
        n       == Len(body) - 3
        intPart == SubSeq(body, 1, n)
    IN /\ n >= 1
       /\ body[n + 1] = "."
       /\ IsDigit(body[n + 2]) /\ IsDigit(body[n + 3])
       /\ IsDigit(intPart[1])
       /\ \A p \in 1..n : IF (n - p + 1) % 4 = 0 THEN intPart[p] = "," ELSE IsDigit(intPart[p])
       /\ (n > 1 => intPart[1] # "0")

\* the product of the two numbers in hundredths, a half rounded up
RoundedProduct(q, p) ==
    LET x == Times(q, p)
        c == IF 2 * x.r >= Scale THEN x.h + 1 ELSE x.h
    IN IF x.neg THEN 0 - c ELSE c

\* C25: a block with a pair line and no lexer match beside the code on the
\* lines under it has the last two matches of the pair line as qty and
\* price; its amount is their product, rounded to two decimals and written
\* with thousands separators, when both parse as numbers, and empty when one
\* of them does not.
C25_ProductWhenNoLaterNumber ==
    \A j \in 1..Len(rows) :
        (HasPairLine(j) /\ LaterNumberLines(j) = {}) =>
            LET qv == parseNumberSimple(rows[j].qty)
                pv == parseNumberSimple(rows[j].price)
            IN /\ rows[j].qty = TextAt(SecondLastOnLine(j, LastPairLineOf(j)))
               /\ rows[j].price = TextAt(LastOnLine(j, LastPairLineOf(j)))
               /\ (isNaN(qv) \/ isNaN(pv)) => rows[j].amount = <<>>
               /\ (~isNaN(qv) /\ ~isNaN(pv)) =>
                      /\ GroupedShape(rows[j].amount)
                      /\ parseNumberSimple(rows[j].amount) = Num(RoundedProduct(qv.v, pv.v))

\* 12.00 300.00 with a name line under it: the amount is 3,600.00
C25_Witness ==
    /\ pc = "done"
    /\ Len(rows) = 1
    /\ HasPairLine(1)
    /\ LaterNumberLines(1) = {}
    /\ LastPairLineOf(1) < blocks[1].end - 1
    /\ rows[1].qty = <<"1", "2", ".", "0", "0">>
    /\ rows[1].price = <<"3", "0", "0", ".", "0", "0">>
    /\ rows[1].amount = <<"3", ",", "6", "0", "0", ".", "0", "0">>

\* 1 - on the last pair line: the price does not parse, the amount is empty
C25_WitnessEmpty ==
    /\ pc = "done"
    /\ Len(rows) = 1
    /\ HasPairLine(1)
    /\ LaterNumberLines(1) = {}
    /\ rows[1].qty = <<"1">>
    /\ rows[1].price = <<"-">>
    /\ rows[1].amount = <<>>

\* -------------------- header lines and blocks --------------------

\* C26: no line with 納　地 and 業 者 名, with 納入台帳 or with 課税対象額
\* lies in the block of a row, the code line of the block included.
C26_HeadersOutsideBlocks ==
    \A j \in 1..Len(blocks) :
        \A k \in blocks[j].start..(blocks[j].end - 1) : ~IsHeaderLine(k)

\* -------------------- the blocks and the totals --------------------

\* the lines that base, total and tax are taken from
SummarySources == {TokenLine(1), TokenLine(2), TokenLine(3)}

C27_WitnessNoMarker ==
    /\ pc = "done"
    /\ Len(rows) = 1
    /\ MarkerLines = {}
    /\ SummaryFound
    /\ \A k \in SummarySources : InBlock(k)
    /\ summary.base = <<"3">>

\* -------------------- the amount on the remainder-blank line --------------------

\* the pair lines of the block of row j above its last line
PairLinesAbove(j) == {k \in PairLines(j) : k < blocks[j].end - 1}

\* the last line of the block of row j is the remainder-blank line, it
\* begins with a number, and the lines between the last pair line above it
\* and itself bear no number
AmountOnMarker(j) ==
    LET last == blocks[j].end - 1
    IN /\ last > blocks[j].start
       /\ IsMarkerLine(last)
       /\ findNumberTokens(lines[last + 1]) # <<>>
       /\ ~isNaN(parseNumberSimple(findNumberTokens(lines[last + 1])[1].text))
       /\ PairLinesAbove(j) # {}
       /\ \A k \in blocks[j].start..(last - 1) :
              (\A o \in PairLinesAbove(j) : o < k) => NonCodeOnLine(j, k) = {}

\* C28: a block that ends with a remainder-blank line bearing the printed
\* amount, under the pair line of the item, has the last two numbers of the
\* pair line as qty and price and the number of the remainder-blank line as
\* amount.
C28_AmountFromMarkerLine ==
    \A j \in 1..Len(rows) :
        AmountOnMarker(j) =>
            LET pair == CHOOSE k \in PairLinesAbove(j) : \A o \in PairLinesAbove(j) : o <= k
            IN /\ rows[j].qty = TextAt(SecondLastOnLine(j, pair))
               /\ rows[j].price = TextAt(LastOnLine(j, pair))
               /\ rows[j].amount = findNumberTokens(lines[blocks[j].end])[1].text

\* -------------------- casks/print.js: the pages of buildInvoiceHtml --------------------

FIRST_PAGE_ROWS == 15

OTHER_PAGE_ROWS == 25

\* rows.slice(a, b)
slice(rs, a, b) ==
    LET to == IF b > Len(rs) THEN Len(rs) ELSE b
    IN SubSeq(rs, a + 1, to)

\* remaining > OTHER_PAGE_ROWS ? OTHER_PAGE_ROWS : remaining
countOf(remaining) == IF remaining > OTHER_PAGE_ROWS THEN OTHER_PAGE_ROWS ELSE remaining

\* isLast with > for >=
isLastPast(at, count, totalRows) == at + count > totalRows

\* isLast = (offset + count >= totalRows)
isLast(at, count, totalRows) == at + count >= totalRows

page(rs, showHeader, showSubtotal, showFooter) ==
    [rows |-> rs, showHeader |-> showHeader, showSubtotal |-> showSubtotal,
     showFooter |-> showFooter]

ledgerIdle ==
    UNCHANGED <<text, lines, i, currentVendor, rows, blocks, summary, returned, calls, data>>

\* rows.length === 0: one page, header and footer
NoRows ==
    /\ pc = "print"
    /\ Len(data.rows) = 0
    /\ pages' = Append(pages, page(<<>>, TRUE, FALSE, TRUE))
    /\ pc' = "built"
    /\ UNCHANGED offset
    /\ ledgerIdle

\* rows.length <= FIRST_PAGE_ROWS: one page with all the rows
OnePage ==
    /\ pc = "print"
    /\ Len(data.rows) # 0
    /\ Len(data.rows) <= FIRST_PAGE_ROWS
    /\ pages' = Append(pages, page(slice(data.rows, 0, Len(data.rows)), TRUE, FALSE, TRUE))
    /\ pc' = "built"
    /\ UNCHANGED offset
    /\ ledgerIdle

\* more rows: the first page, with its subtotal
FirstPage ==
    /\ pc = "print"
    /\ Len(data.rows) > FIRST_PAGE_ROWS
    /\ pages' = Append(pages, page(slice(data.rows, offset, offset + FIRST_PAGE_ROWS),
                                   TRUE, TRUE, FALSE))
    /\ offset' = offset + FIRST_PAGE_ROWS
    /\ pc' = "paging"
    /\ ledgerIdle

\* one turn of while (offset < totalRows)
NextPage ==
    /\ pc = "paging"
    /\ offset < Len(data.rows)
    /\ LET totalRows == Len(data.rows)
           count     == countOf(totalRows - offset)
       IN /\ pages' = Append(pages, page(slice(data.rows, offset, offset + count),
                                         FALSE, TRUE, isLast(offset, count, totalRows)))
          /\ offset' = offset + count
    /\ UNCHANGED pc
    /\ ledgerIdle

\* the loop is left: pageCount = pages.length
PagesBuilt ==
    /\ pc = "paging"
    /\ offset >= Len(data.rows)
    /\ pc' = "built"
    /\ UNCHANGED <<pages, offset>>
    /\ ledgerIdle

NextPrint == NoRows \/ OnePage \/ FirstPage \/ NextPage \/ PagesBuilt

\* most rows of an invoice
MaxRows == 70

\* the rows of the table, the k-th one written k
InitPrint ==
    \E n \in 0..MaxRows :
        /\ text = <<>>
        /\ lines = <<<<>>>>
        /\ i = 0
        /\ currentVendor = <<>>
        /\ rows = <<>>
        /\ blocks = <<>>
        /\ summary = Undefined
        /\ returned = {}
        /\ calls = 0
        /\ pc = "print"
        /\ data = [rows |-> [k \in 1..n |-> k]]
        /\ pages = <<>>
        /\ offset = 0

SpecPrint == InitPrint /\ [][NextPrint]_vars

\* the rows of the pages so far, page after page
RECURSIVE RowsOfPages(_)
RowsOfPages(ps) ==
    IF ps = <<>> THEN <<>> ELSE RowsOfPages(SubSeq(ps, 1, Len(ps) - 1)) \o ps[Len(ps)].rows

\* C29: the pages hold the rows in their order, each row once; 15 rows or
\* fewer make one page with header and footer and no subtotal; more rows
\* make a first page of 15 rows and later pages of 25, the last one of 25 or
\* fewer, each with a subtotal, the first alone with the header, the last
\* alone with the footer.
C29_Pagination ==
    /\ pc \in {"paging", "built"} =>
           RowsOfPages(pages) = SubSeq(data.rows, 1, Len(RowsOfPages(pages)))
    /\ pc = "built" =>
           /\ RowsOfPages(pages) = data.rows
           /\ Len(data.rows) <= 15 =>
                  /\ Len(pages) = 1
                  /\ pages[1].showHeader /\ pages[1].showFooter /\ ~pages[1].showSubtotal
           /\ Len(data.rows) > 15 =>
                  /\ Len(pages) >= 2
                  /\ Len(pages[1].rows) = 15
                  /\ \A k \in 2..Len(pages) :
                         /\ Len(pages[k].rows) >= 1
                         /\ Len(pages[k].rows) <= 25
                         /\ k < Len(pages) => Len(pages[k].rows) = 25
                  /\ \A k \in 1..Len(pages) :
                         /\ pages[k].showSubtotal
                         /\ pages[k].showHeader <=> k = 1
                         /\ pages[k].showFooter <=> k = Len(pages)

\* 50 rows: pages of 15, 25 and 10 rows
C29_Witness ==
    /\ pc = "built"
    /\ Len(data.rows) = 50
    /\ Len(pages) = 3
    /\ Len(pages[3].rows) = 10
    /\ pages[3].showFooter

\* 15 rows: one page
C29_WitnessOnePage ==
    /\ pc = "built"
    /\ Len(data.rows) = 15
    /\ Len(pages) = 1
    /\ ~pages[1].showSubtotal

\* -------------------- the scan goes forward --------------------

BlocksInOrder ==
    /\ \A j \in 1..Len(blocks) :
           /\ 0 <= blocks[j].start
           /\ blocks[j].start + 1 <= blocks[j].end
           /\ blocks[j].end <= Len(lines)
           /\ j > 1 => blocks[j - 1].end <= blocks[j].start
    /\ blocks # <<>> => blocks[Len(blocks)].end <= i

\* C30: every turn of the loop of parseDetailsFromText leaves the index
\* above where it was and not beyond the number of lines, the loop is left
\* when the index is the number of lines, nothing runs after the return;
\* a row's block [s, e) has e >= s + 1, the loop goes on at e, and the
\* blocks lie one after the other down the lines.
C30_ScanGoesForward ==
    [][/\ pc # "done"
       /\ lines' = lines
       /\ pc' = "details" => (i < i' /\ i' <= Len(lines))
       /\ pc' = "done" => (i = Len(lines) /\ i' = i)
       /\ Len(blocks') > Len(blocks) =>
              /\ blocks'[Len(blocks')].start = i
              /\ blocks'[Len(blocks')].end = i'
       /\ BlocksInOrder']_vars

\* two blocks, the second right under the first, the first of several lines
C30_Witness ==
    /\ pc = "done"
    /\ Len(blocks) = 2
    /\ blocks[1].end - blocks[1].start >= 2
    /\ blocks[2].start = blocks[1].end
    /\ blocks[2].end = Len(lines)
    /\ i = Len(lines)

====
